---- MODULE Spec2Model ----
(***************************************************************************)
(* Model of the spreadsheet intake connector: column normalisation and     *)
(* de-duplication, header-row location, the plan-sheet melt, the workbook  *)
(* loop and the rate-card merge.                                           *)
(*                                                                         *)
(* Text is modelled by TLA+ strings (Len, SubSeq, \o operate on them);     *)
(* a spreadsheet cell is a record [k, s, n] whose kind k is "null" (NaN),  *)
(* "str" (text s) or "int" (number n).                                     *)
(***************************************************************************)
EXTENDS Integers, Sequences, FiniteSets, TLC

VARIABLES
  pc,                  \* position of the running routine
  raw_columns,         \* header cells handed to the column normaliser
  normalized_columns,  \* result of normalize_column_name per header cell
  unique_columns,      \* result of make_columns_unique
  plan_df,             \* raw grid handed to process_plan_sheet (rows of cells)
  plan_header_row,     \* 0-based index of the header row in plan_df
  plan_result,         \* value returned by process_plan_sheet
  hdr_df,              \* raw grid handed to find_header_row
  hdr_type,            \* sheet type handed to find_header_row
  hdr_max_rows,        \* max_rows argument of find_header_row
  hdr_result,          \* value returned by find_header_row
  hdr_inserted,        \* number of blank rows put on top of hdr_df for the second call
  hdr_shifted_result,  \* value returned by find_header_row on the grid with the blank rows
  det_name,            \* sheet name handed to detect_sheet_type
  det_tags,            \* values returned by the calls of detect_sheet_type on det_name
  run_pos,             \* position of a pipeline run in the steps of its entry point
  run_done,            \* steps of the pipeline run that have returned
  run_plan_sheet,      \* rows of the plan sheet of the input file of the run
  run_rate_sheet,      \* rows of the rate-card sheet of the input file of the run
  wb_sheets,           \* the workbook: the names of its sheets in order
  wb_i,                \* process_workbook: 1-based position of the loop over sheet_names
  results,             \* process_workbook: the results dict
  bq_projects,         \* rows of the warehouse table "projects"
  runs,                \* number of process_workbook runs started on the file
  mg_variant,          \* which merge_and_calculate runs: "ingest" or "financial_etl"
  mg_plan,             \* allocation rows handed to merge_and_calculate
  mg_rate_card,        \* rate-card rows handed to merge_and_calculate
  mg_merged,           \* frame returned by merge_and_calculate
  mg_unmatched,        \* unmatched count reported by the merge step (NoReport: none)
  meta_df,             \* raw grid handed to extract_sheet_metadata
  meta_header_row,     \* header_row argument of extract_sheet_metadata
  sheet_metadata,      \* value returned by extract_sheet_metadata
  proc_type,           \* type of the sheet handed to a sheet processor
  proc_df,             \* raw grid handed to the sheet processor (header row first)
  proc_result,         \* value returned by the sheet processor
  sheet_info,          \* interactive mode: the list of sheet entries
  ui_steps,            \* interactive mode: the steps of run_interactive_mode that returned
  ui_responses,        \* interactive mode: number of answers read by the selection loop
  ui_processed         \* interactive mode: names of the sheets the processing loop took

colVars == <<raw_columns, normalized_columns, unique_columns>>
planVars == <<plan_df, plan_header_row, plan_result>>
hdrVars == <<hdr_df, hdr_type, hdr_max_rows, hdr_result, hdr_inserted, hdr_shifted_result>>
wbVars == <<wb_sheets, wb_i, results, bq_projects, runs>>
mgVars == <<mg_variant, mg_plan, mg_rate_card, mg_merged, mg_unmatched>>
detVars == <<det_name, det_tags>>
runVars == <<run_pos, run_done, run_plan_sheet, run_rate_sheet>>
metaVars == <<meta_df, meta_header_row, sheet_metadata>>
procVars == <<proc_type, proc_df, proc_result>>
uiVars == <<sheet_info, ui_steps, ui_responses, ui_processed>>
extVars == <<metaVars, procVars, uiVars>>
vars == <<pc, colVars, planVars, hdrVars, wbVars, mgVars, detVars, runVars, extVars>>

(***************************************************************************)
(* Bounds of the model.                                                    *)
(***************************************************************************)
MaxCols == 3
MaxPlanCols == 3
MaxDataRows == 1
MaxGridRows == 3
SmallMaxRows == 2
MaxSheets == 3
MaxRuns == 2
MaxMergeRows == 2
MaxProcRows == 2
MaxMetaRows == 2
MaxUiSheets == 2
MaxResponses == 2
MaxShiftRows == 2
MaxBlankRows == 2
MaxCalls == 2
MaxPreambleRows == 5
MaxRunRows == 1

(***************************************************************************)
(* Cells.                                                                  *)
(***************************************************************************)
NaN == [k |-> "null", s |-> "", n |-> 0]
Text(t) == [k |-> "str", s |-> t, n |-> 0]
Num(i) == [k |-> "int", s |-> "", n |-> i]

isna(c) == c.k = "null"
notna(c) == c.k # "null"
isstr(c) == c.k = "str"
isnum(c) == c.k = "int"

\* Python str(value) of a non-null cell
PyStr(c) == IF c.k = "str" THEN c.s ELSE IF c.k = "int" THEN ToString(c.n) ELSE "nan"

(***************************************************************************)
(* Python string primitives.                                               *)
(***************************************************************************)
UpperAlpha == "ABCDEFGHIJKLMNOPQRSTUVWXYZ"
LowerAlpha == "abcdefghijklmnopqrstuvwxyz"
DigitChars == "0123456789"
Whitespace == {" ", "\t", "\n", "\r", "\f"}

CharAt(s, i) == SubSeq(s, i, i)
CharsOf(s) == {CharAt(s, i) : i \in 1..Len(s)}

IsUpperChar(c) == c \in CharsOf(UpperAlpha)
IsLowerChar(c) == c \in CharsOf(LowerAlpha)
IsDigitChar(c) == c \in CharsOf(DigitChars)
IsSpaceChar(c) == c \in Whitespace
\* \w of the re module
IsWordChar(c) == IsUpperChar(c) \/ IsLowerChar(c) \/ IsDigitChar(c) \/ c = "_"

LowerChar(c) ==
  IF IsUpperChar(c)
  THEN CharAt(LowerAlpha, CHOOSE i \in 1..Len(UpperAlpha) : CharAt(UpperAlpha, i) = c)
  ELSE c

UpperChar(c) ==
  IF IsLowerChar(c)
  THEN CharAt(UpperAlpha, CHOOSE i \in 1..Len(LowerAlpha) : CharAt(LowerAlpha, i) = c)
  ELSE c

RECURSIVE lower(_)
lower(s) == IF s = "" THEN "" ELSE LowerChar(Head(s)) \o lower(Tail(s))

RECURSIVE lstrip(_)
lstrip(s) == IF s # "" /\ IsSpaceChar(Head(s)) THEN lstrip(Tail(s)) ELSE s

RECURSIVE rstrip(_)
rstrip(s) ==
  IF s # "" /\ IsSpaceChar(CharAt(s, Len(s))) THEN rstrip(SubSeq(s, 1, Len(s) - 1)) ELSE s

strip(s) == rstrip(lstrip(s))

\* s.strip(ch) for a single character ch
RECURSIVE StripChar(_, _)
StripChar(s, ch) ==
  IF s # "" /\ Head(s) = ch THEN StripChar(Tail(s), ch)
  ELSE IF s # "" /\ CharAt(s, Len(s)) = ch THEN StripChar(SubSeq(s, 1, Len(s) - 1), ch)
  ELSE s

\* s.lstrip(ch)
RECURSIVE LStripChar(_, _)
LStripChar(s, ch) == IF s # "" /\ Head(s) = ch THEN LStripChar(Tail(s), ch) ELSE s

\* t in s
Contains(s, t) == \E i \in 1..(Len(s) - Len(t) + 1) : SubSeq(s, i, i + Len(t) - 1) = t

StartsWith(s, t) == Len(t) <= Len(s) /\ SubSeq(s, 1, Len(t)) = t

\* s.isdigit()
IsDigits(s) == s # "" /\ \A i \in 1..Len(s) : IsDigitChar(CharAt(s, i))

\* re.sub(r'\s+', ' ', s)
RECURSIVE CollapseSpaces(_)
CollapseSpaces(s) ==
  IF s = "" THEN ""
  ELSE IF IsSpaceChar(Head(s))
       THEN " " \o CollapseSpaces(lstrip(s))
       ELSE Head(s) \o CollapseSpaces(Tail(s))

\* re.sub(r'[^\w]', '_', s)
RECURSIVE NonWordToUnderscore(_)
NonWordToUnderscore(s) ==
  IF s = "" THEN ""
  ELSE (IF IsWordChar(Head(s)) THEN Head(s) ELSE "_") \o NonWordToUnderscore(Tail(s))

\* int(s) for a string of decimal digits
RECURSIVE ParseInt(_)
ParseInt(s) ==
  IF s = "" THEN 0
  ELSE ParseInt(SubSeq(s, 1, Len(s) - 1)) * 10
       + ((CHOOSE i \in 1..10 : CharAt(DigitChars, i) = CharAt(s, Len(s))) - 1)

Min(a, b) == IF a <= b THEN a ELSE b

\* all sequences over S of length at most n (input enumeration)
RECURSIVE SeqsUpTo(_, _)
SeqsUpTo(S, n) ==
  IF n = 0 THEN {<<>>}
  ELSE LET shorter == SeqsUpTo(S, n - 1)
       IN shorter \cup {Append(q, x) : q \in {r \in shorter : Len(r) = n - 1}, x \in S}

(***************************************************************************)
(* Column-name table (insertion order of the dict is the iteration order). *)
(***************************************************************************)
COLUMN_MAPPINGS ==
  << <<"market", "market">>,
     <<"market_region", "market">>,
     <<"dept market", "market">>,
     <<"department", "department">>,
     <<"global department", "department">>,
     <<"dept department", "department">>,
     <<"craft", "department">>,
     <<"role", "role">>,
     <<"job role", "role">>,
     <<"title", "title">>,
     <<"dept title", "title">>,
     <<"level name", "level">>,
     <<"level", "level">>,
     <<"cost rate", "cost_rate">>,
     <<"bill rate", "bill_rate">>,
     <<"bill rate, usd", "bill_rate">>,
     <<"final bill rate", "final_bill_rate">>,
     <<"effective bill rate", "effective_bill_rate">>,
     <<"rate card bill rate", "rate_card_bill_rate">>,
     <<"final cost rate", "final_cost_rate">>,
     <<"primary rate", "primary_rate">>,
     <<"standard bill rate", "standard_bill_rate">>,
     <<"bill rate override", "bill_rate_override">>,
     <<"cost rate override", "cost_rate_override">>,
     <<"total fees override", "total_fees_override">>,
     <<"total cost override", "total_cost_override">>,
     <<"total hours override", "total_hours_override">>,
     <<"total fees", "total_fees">>,
     <<"effective fees", "effective_fees">>,
     <<"total cost", "total_cost">>,
     <<"total hours", "total_hours">>,
     <<"gross margin", "gross_margin">>,
     <<"margin %", "margin_pct">>,
     <<"discount %", "discount_pct">>,
     <<"employee name", "employee_name">>,
     <<"employee", "employee_name">>,
     <<"name", "employee_name">>,
     <<"employee currrent title", "employee_title">>,
     <<"business team", "business_team">>,
     <<"ic type", "ic_type">>,
     <<"category", "category">>,
     <<"notes", "notes">>,
     <<"notes/description", "notes">>,
     <<"standard role name, \nif non-default", "standard_role_override">>,
     <<"alt. custom rate card", "alt_rate_card">>,
     <<"deptapps budget", "deptapps_budget">>,
     <<"item", "item">>,
     <<"vendor", "vendor">>,
     <<"estimate/actual", "estimate_actual">>,
     <<"type", "cost_type">>,
     <<"% dedication", "dedication_pct">>,
     <<"est. # of total hours", "est_total_hours">>,
     <<"est. # of weekly hours", "est_weekly_hours">>,
     <<"total fee", "total_fee">>,
     <<"weekly fee", "weekly_fee">> >>

\* col_lower in COLUMN_MAPPINGS
InMappings(col) == \E i \in 1..Len(COLUMN_MAPPINGS) : COLUMN_MAPPINGS[i][1] = col
Mapped(col) == COLUMN_MAPPINGS[CHOOSE i \in 1..Len(COLUMN_MAPPINGS) : COLUMN_MAPPINGS[i][1] = col][2]

\* for pattern, canonical in COLUMN_MAPPINGS.items(): if pattern in col_lower
PartialHits(col) == {i \in 1..Len(COLUMN_MAPPINGS) : Contains(col, COLUMN_MAPPINGS[i][1])}
FirstPartial(col) ==
  COLUMN_MAPPINGS[CHOOSE i \in PartialHits(col) : \A j \in PartialHits(col) : i <= j][2]

normalize_column_name(col_name) ==
  IF isna(col_name) THEN ""
  ELSE LET col_lower == CollapseSpaces(strip(lower(PyStr(col_name))))
       IN IF InMappings(col_lower) THEN Mapped(col_lower)
          ELSE IF PartialHits(col_lower) # {} THEN FirstPartial(col_lower)
          ELSE StripChar(NonWordToUnderscore(col_lower), "_")

(***************************************************************************)
(* make_columns_unique: a counter per name, suffix _k on the k-th repeat.  *)
(* The argument is a sequence of cells (text or NaN).                      *)
(***************************************************************************)
ColStr(col) == IF notna(col) THEN PyStr(col) ELSE "unnamed"

\* seen[col_str] before position i: number of earlier occurrences minus one
EarlierCount(columns, i) ==
  Cardinality({j \in 1..(i - 1) : ColStr(columns[j]) = ColStr(columns[i])})

\* mutant: every occurrence after the first gets the suffix _1
make_columns_unique_flat(columns) ==
  [i \in 1..Len(columns) |->
     IF EarlierCount(columns, i) > 0 THEN ColStr(columns[i]) \o "_1" ELSE ColStr(columns[i])]

make_columns_unique(columns) ==
  [i \in 1..Len(columns) |->
     IF EarlierCount(columns, i) > 0
     THEN ColStr(columns[i]) \o "_" \o ToString(EarlierCount(columns, i))
     ELSE ColStr(columns[i])]

(***************************************************************************)
(* re.search for the pattern language of the sheet-name tables: literal    *)
(* characters, \s, \d, escaped literals, '.', the quantifiers * + ? {n},   *)
(* a leading ^ and a trailing $.                                           *)
(***************************************************************************)
AtomLen(re, p) == IF CharAt(re, p) = "\\" THEN 2 ELSE 1

AtomMatches(re, p, c) ==
  IF CharAt(re, p) = "\\"
  THEN CASE CharAt(re, p + 1) = "s" -> IsSpaceChar(c)
         [] CharAt(re, p + 1) = "d" -> IsDigitChar(c)
         [] OTHER -> c = CharAt(re, p + 1)
  ELSE IF CharAt(re, p) = "." THEN c # "\n"
  ELSE c = CharAt(re, p)

\* the quantifier that follows the atom at p: <<min, max, length in the pattern>>
Quantifier(re, p, rest) ==
  LET q == p + AtomLen(re, p)
      c == IF q <= Len(re) THEN CharAt(re, q) ELSE ""
  IN CASE c = "*" -> <<0, rest, 1>>
       [] c = "+" -> <<1, rest, 1>>
       [] c = "?" -> <<0, 1, 1>>
       [] c = "{" -> <<ParseInt(CharAt(re, q + 1)), ParseInt(CharAt(re, q + 1)), 3>>
       [] OTHER -> <<1, 1, 0>>

RECURSIVE MatchFrom(_, _, _, _)
MatchFrom(re, p, s, j) ==
  IF p > Len(re) THEN TRUE
  ELSE IF p = Len(re) /\ CharAt(re, p) = "$"
       THEN j = Len(s) + 1 \/ (j = Len(s) /\ CharAt(s, j) = "\n")
  ELSE LET rest == Len(s) - j + 1
           qt == Quantifier(re, p, rest)
       IN \E k \in qt[1]..Min(qt[2], rest) :
            /\ \A m \in 0..(k - 1) : AtomMatches(re, p, CharAt(s, j + m))
            /\ MatchFrom(re, p + AtomLen(re, p) + qt[3], s, j + k)

re_search(re, s) ==
  IF CharAt(re, 1) = "^" THEN MatchFrom(re, 2, s, 1)
  ELSE \E j \in 1..(Len(s) + 1) : MatchFrom(re, 1, s, j)

(***************************************************************************)
(* Sheet-name classification.                                              *)
(***************************************************************************)
SHEET_TYPE_PATTERNS ==
  << <<"plan", <<"^plan$", "plan\\s*\\(", "allocation", "forecast", "staffing", "20\\d{2}.*plan", "plan.*20\\d{2}">> >>,
     <<"rate_card", <<"rate\\s*card", "ratecard", "custom.*rate", "deptapps.*rate">> >>,
     <<"actuals", <<"actual", "timesheet", "hours.*log", "pivot">> >>,
     <<"costs", <<"^costs?$", "expense", "vendor.*cost", "^extras?$">> >>,
     <<"investment_log", <<"invest.*log", "investment\\s+log", "overrun">> >>,
     <<"external_estimate", <<"ext.*estimate", "client.*estimate", "external.*summary", "^ext\\s+">> >>,
     <<"media", <<"^media$", "media.*plan", "media.*buy">> >>,
     <<"info", <<"^info$", "change.*log", "version">> >>,
     <<"mapping", <<"^_mapping", "^_custom", "helper">> >> >>

SKIP_SHEET_PATTERNS == <<"^_", "helper", "mapping", "^info$">>

AnyPattern(patterns, s) == \E i \in 1..Len(patterns) : re_search(patterns[i], s)

MatchingTypes(name_lower) ==
  {i \in 1..Len(SHEET_TYPE_PATTERNS) : AnyPattern(SHEET_TYPE_PATTERNS[i][2], name_lower)}

\* mutant: no default, nothing is returned for a name that matches no pattern
detect_sheet_type_no_default(sheet_name) ==
  LET name_lower == strip(lower(sheet_name))
  IN IF AnyPattern(SKIP_SHEET_PATTERNS, name_lower) THEN "skip"
     ELSE IF MatchingTypes(name_lower) # {}
          THEN SHEET_TYPE_PATTERNS[CHOOSE i \in MatchingTypes(name_lower) :
                                     \A k \in MatchingTypes(name_lower) : i <= k][1]
     ELSE "None"

\* mutant: the type patterns are tried before the skip patterns
detect_sheet_type_types_first(sheet_name) ==
  LET name_lower == strip(lower(sheet_name))
  IN IF MatchingTypes(name_lower) # {}
     THEN SHEET_TYPE_PATTERNS[CHOOSE i \in MatchingTypes(name_lower) :
                                \A k \in MatchingTypes(name_lower) : i <= k][1]
     ELSE IF AnyPattern(SKIP_SHEET_PATTERNS, name_lower) THEN "skip"
     ELSE IF re_search("20\\d{2}", name_lower) THEN "plan"
     ELSE "unknown"

\* mutant: the last matching type of the table is returned
detect_sheet_type_last_match(sheet_name) ==
  LET name_lower == strip(lower(sheet_name))
  IN IF AnyPattern(SKIP_SHEET_PATTERNS, name_lower) THEN "skip"
     ELSE IF MatchingTypes(name_lower) # {}
          THEN SHEET_TYPE_PATTERNS[CHOOSE i \in MatchingTypes(name_lower) :
                                     \A k \in MatchingTypes(name_lower) : i >= k][1]
     ELSE IF re_search("20\\d{2}", name_lower) THEN "plan"
     ELSE "unknown"

detect_sheet_type(sheet_name) ==
  LET name_lower == strip(lower(sheet_name))
  IN IF AnyPattern(SKIP_SHEET_PATTERNS, name_lower) THEN "skip"
     ELSE IF MatchingTypes(name_lower) # {}
          THEN SHEET_TYPE_PATTERNS[CHOOSE i \in MatchingTypes(name_lower) :
                                     \A k \in MatchingTypes(name_lower) : i <= k][1]
     ELSE IF re_search("20\\d{2}", name_lower) THEN "plan"
     ELSE "unknown"

(***************************************************************************)
(* find_header_row: score the first min(max_rows, len(df)) rows, keep the  *)
(* first row with the strictly highest score.                              *)
(***************************************************************************)
HEADER_KEYWORDS ==
  << <<"plan", <<"category", "market", "department", "role", "total hours", "total fees">> >>,
     <<"rate_card", <<"market", "craft", "role", "title", "cost rate", "bill rate", "level">> >>,
     <<"actuals", <<"market", "employee", "role", "total hours">> >>,
     <<"costs", <<"item", "category", "date", "vendor", "total cost">> >>,
     <<"investment_log", <<"date identified", "investment summary", "investment amount",
                           "resource impact">> >>,
     <<"external_estimate", <<"department", "role", "total hours", "total fee", "dedication">> >>,
     <<"media", <<"channel", "platform", "budget", "spend", "impressions", "vendor">> >> >>

DefaultMaxRows == 60

\* HEADER_KEYWORDS.get(sheet_type, HEADER_KEYWORDS['plan'])
KeywordsFor(sheet_type) ==
  IF \E i \in 1..Len(HEADER_KEYWORDS) : HEADER_KEYWORDS[i][1] = sheet_type
  THEN HEADER_KEYWORDS[CHOOSE i \in 1..Len(HEADER_KEYWORDS) : HEADER_KEYWORDS[i][1] = sheet_type][2]
  ELSE HEADER_KEYWORDS[1][2]

\* re.match(r'^(0[1-9]|[1-9][0-9])$', s)
TwoDigitWeek(s) ==
  /\ Len(s) = 2
  /\ IsDigitChar(CharAt(s, 1)) /\ IsDigitChar(CharAt(s, 2))
  /\ s # "00"

\* re.match(r'^(0[1-9]|[1-9][0-9])-hours$', s)
TwoDigitWeekHours(s) == Len(s) = 8 /\ TwoDigitWeek(SubSeq(s, 1, 2)) /\ SubSeq(s, 3, 8) = "-hours"

NonNullCount(row) == Cardinality({c \in 1..Len(row) : notna(row[c])})
StringCount(row) == Cardinality({c \in 1..Len(row) : isstr(row[c])})

\* mutant: the non-null threshold is not applied
RowSkipped_never(row) == FALSE

\* if len(non_null) < 3: continue
RowSkipped(row) == NonNullCount(row) < 3

\* the score one string cell adds
CellScore(val, keywords) ==
  LET val_lower == strip(lower(val))
  IN 5 * Cardinality({k \in 1..Len(keywords) : Contains(val_lower, keywords[k])})
     + (IF TwoDigitWeek(val_lower) THEN 1 ELSE 0)
     + (IF TwoDigitWeekHours(val_lower) THEN 1 ELSE 0)

RECURSIVE SumCellScores(_, _, _)
SumCellScores(row, c, keywords) ==
  IF c > Len(row) THEN 0
  ELSE (IF isstr(row[c]) THEN CellScore(row[c].s, keywords) ELSE 0)
       + SumCellScores(row, c + 1, keywords)

RowScore(row, keywords) ==
  SumCellScores(row, 1, keywords) + (IF StringCount(row) >= 4 THEN StringCount(row) ELSE 0)

\* mutant: a row that ties with the best score so far replaces it
RECURSIVE ScanRows_keep_last(_, _, _, _, _, _)
ScanRows_keep_last(df, keywords, idx, limit, best_row, best_score) ==
  IF idx >= limit THEN best_row
  ELSE IF RowSkipped(df[idx + 1])
       THEN ScanRows_keep_last(df, keywords, idx + 1, limit, best_row, best_score)
  ELSE IF RowScore(df[idx + 1], keywords) >= best_score
       THEN ScanRows_keep_last(df, keywords, idx + 1, limit, idx, RowScore(df[idx + 1], keywords))
       ELSE ScanRows_keep_last(df, keywords, idx + 1, limit, best_row, best_score)

\* the loop body for idx, idx + 1, ... below limit
RECURSIVE ScanRows(_, _, _, _, _, _)
ScanRows(df, keywords, idx, limit, best_row, best_score) ==
  IF idx >= limit THEN best_row
  ELSE IF RowSkipped(df[idx + 1]) THEN ScanRows(df, keywords, idx + 1, limit, best_row, best_score)
  ELSE IF RowScore(df[idx + 1], keywords) > best_score
       THEN ScanRows(df, keywords, idx + 1, limit, idx, RowScore(df[idx + 1], keywords))
       ELSE ScanRows(df, keywords, idx + 1, limit, best_row, best_score)

\* mutant: the scan stops one row early
find_header_row_short(df, sheet_type, max_rows) ==
  ScanRows(df, KeywordsFor(sheet_type), 0, Min(max_rows, Len(df)) - 1, -1, 0)

find_header_row(df, sheet_type, max_rows) ==
  ScanRows(df, KeywordsFor(sheet_type), 0, Min(max_rows, Len(df)), -1, 0)

(***************************************************************************)
(* process_plan_sheet.  A grid df is a sequence of rows, a row a sequence  *)
(* of cells; header_row is 0-based as in the code.                         *)
(***************************************************************************)
dimension_cols ==
  << "category", "market", "department", "role", "employee_name",
     "notes", "business_team", "ic_type",
     "final_bill_rate", "effective_bill_rate", "cost_rate", "final_cost_rate",
     "total_fees", "total_cost", "total_hours", "margin_pct", "discount_pct" >>

key_cols == <<"market", "department", "role">>

SeqSet(q) == {q[i] : i \in 1..Len(q)}

\* col.startswith(dim + '_') and col[len(dim)+1:].isdigit()
IsSuffixedDim(col, dim) ==
  StartsWith(col, dim \o "_") /\ IsDigits(SubSeq(col, Len(dim) + 2, Len(col)))

FirstSuffixed(columns, dim) ==
  columns[CHOOSE p \in 1..Len(columns) :
            /\ IsSuffixedDim(columns[p], dim)
            /\ \A r \in 1..(p - 1) : ~IsSuffixedDim(columns[r], dim)]

RECURSIVE ExistingDims(_, _)
ExistingDims(dims, columns) ==
  IF dims = <<>> THEN <<>>
  ELSE (IF Head(dims) \in SeqSet(columns) THEN <<Head(dims)>>
        ELSE IF \E p \in 1..Len(columns) : IsSuffixedDim(columns[p], Head(dims))
             THEN <<FirstSuffixed(columns, Head(dims))>>
             ELSE <<>>)
       \o ExistingDims(Tail(dims), columns)

\* dict(zip(unique_columns, original_columns)).get(col): the last pair wins
ColOriginal(unique, original, col) ==
  original[CHOOSE p \in 1..Len(unique) :
             unique[p] = col /\ \A r \in (p + 1)..Len(unique) : unique[r] # col]

\* mutant: the melt never raises
MeltRaises_never(columns, value_name) == FALSE

\* mutant: a leading zero is not accepted
WeekToken_no_leading_zero(s) ==
  \/ Len(s) = 1 /\ IsDigitChar(s) /\ s # "0"
  \/ Len(s) = 2 /\ IsDigitChar(CharAt(s, 1)) /\ CharAt(s, 1) \notin {"0", "9"}
                /\ IsDigitChar(CharAt(s, 2))
  \/ s = "90"

\* re.match(r'^(0?[1-9]|[1-8][0-9]|90)$', s)
WeekToken(s) ==
  \/ Len(s) = 1 /\ IsDigitChar(s) /\ s # "0"
  \/ Len(s) = 2 /\ CharAt(s, 1) = "0" /\ IsDigitChar(CharAt(s, 2)) /\ CharAt(s, 2) # "0"
  \/ Len(s) = 2 /\ IsDigitChar(CharAt(s, 1)) /\ CharAt(s, 1) \notin {"0", "9"}
                /\ IsDigitChar(CharAt(s, 2))
  \/ s = "90"

\* the week number process_plan_sheet reads off an original header cell, 0 if none
WeekNumberOf(original) ==
  IF isna(original) THEN 0
  ELSE IF isnum(original) /\ 1 <= original.n /\ original.n <= 90 THEN original.n
  ELSE IF WeekToken(strip(PyStr(original)))
       THEN LET week_num == ParseInt(LStripChar(strip(PyStr(original)), "0"))
            IN IF 1 <= week_num /\ week_num <= 90 THEN week_num ELSE 0
       ELSE 0

\* df_data.dropna(subset=existing_keys, how='all')
KeepRow(row, unique) ==
  LET existing_keys == {c \in SeqSet(key_cols) : c \in SeqSet(unique)}
  IN existing_keys = {} \/ \E p \in 1..Len(unique) : unique[p] \in existing_keys /\ notna(row[p])

\* the column positions pd.melt stacks, in its order: for every value_vars
\* label in turn, every position carrying that label not yet taken
RECURSIVE MeltOrder(_, _, _)
MeltOrder(value_vars, columns, taken) ==
  IF value_vars = <<>> THEN taken
  ELSE MeltOrder(Tail(value_vars), columns,
                 taken \o SelectSeq([p \in 1..Len(columns) |-> p],
                                    LAMBDA p : columns[p] = Head(value_vars)
                                               /\ p \notin SeqSet(taken)))

RECURSIVE Flatten(_)
Flatten(qq) == IF qq = <<>> THEN <<>> ELSE Head(qq) \o Flatten(Tail(qq))

\* pd.melt raises ValueError when value_name is already a column of the frame
MeltRaises(columns, value_name) == value_name \in SeqSet(columns)

\* df_melted['source_sheet'] = sheet_name; df_melted['project_id'] = metadata.get('project_id', '')
TagRow(ids, week_number, hours, sheet_name, project_id) ==
  [ids |-> ids, week_number |-> week_number, hours |-> hours,
   source_sheet |-> sheet_name, project_id |-> project_id]

process_plan_sheet(df, sheet_name, header_row, project_id) ==
  LET raw == df[header_row + 1]
      original_columns == raw
      normalized == [i \in 1..Len(raw) |-> normalize_column_name(raw[i])]
      unique == make_columns_unique([i \in 1..Len(raw) |-> Text(normalized[i])])
      existing_dims == ExistingDims(dimension_cols, unique)
      all_data == SubSeq(df, header_row + 2, Len(df))
      df_data == SelectSeq(all_data, LAMBDA row : KeepRow(row, unique))
      WeekOf(col) == WeekNumberOf(ColOriginal(unique, original_columns, col))
      week_positions == SelectSeq([p \in 1..Len(unique) |-> p], LAMBDA p : WeekOf(unique[p]) > 0)
      week_col_names == [k \in 1..Len(week_positions) |-> unique[week_positions[k]]]
      id_vars == SelectSeq(existing_dims, LAMBDA c : c \notin SeqSet(week_col_names))
      PosOf(c) == CHOOSE p \in 1..Len(unique) : unique[p] = c
      Ids(row, names) == [c \in SeqSet(names) |-> row[PosOf(c)]]
      order == MeltOrder(week_col_names, unique, <<>>)
      df_melted ==
        Flatten([k \in 1..Len(order) |->
                   [r \in 1..Len(df_data) |->
                      TagRow(Ids(df_data[r], id_vars), Num(WeekOf(unique[order[k]])),
                             df_data[r][order[k]], sheet_name, project_id)]])
      kept == SelectSeq(df_melted, LAMBDA a : notna(a.hours) /\ a.hours # Num(0))
      week_col_in_data == [k \in 1..Len(week_positions) |->
                             <<unique[week_positions[k]], WeekOf(unique[week_positions[k]])>>]
      dims_only == [r \in 1..Len(df_data) |->
                      TagRow(Ids(df_data[r], existing_dims), NaN, NaN, sheet_name, project_id)]
  IN IF week_positions # <<>> /\ ~MeltRaises(unique, "hours")
     THEN [allocations |-> kept, row_count |-> Len(kept), melted |-> TRUE,
           week_col_in_data |-> week_col_in_data]
     ELSE [allocations |-> dims_only, row_count |-> Len(dims_only), melted |-> FALSE,
           week_col_in_data |-> week_col_in_data]

(***************************************************************************)
(* The other sheet processors.  A frame is [columns, rows]; every row      *)
(* carries the cells of the data row and the tags the processor adds.      *)
(***************************************************************************)
UniqueColumnsOf(df, header_row) ==
  make_columns_unique([i \in 1..Len(df[header_row + 1]) |->
                         Text(normalize_column_name(df[header_row + 1][i]))])

DataBelow(df, header_row) == SubSeq(df, header_row + 2, Len(df))

\* df_data.dropna(subset=[name])
DropNaAny(rows, columns, name) ==
  SelectSeq(rows, LAMBDA row : \A p \in 1..Len(columns) : columns[p] = name => notna(row[p]))

\* existing = [c for c in keys if c in columns]; dropna(subset=existing, how='all') if existing
DropNaAll(rows, columns, keys) ==
  IF SeqSet(keys) \cap SeqSet(columns) = {} THEN rows
  ELSE SelectSeq(rows, LAMBDA row : \E p \in 1..Len(columns) :
                                      columns[p] \in SeqSet(keys) /\ notna(row[p]))

TagRows(rows, sheet_name, project_id, rate_card_type) ==
  [r \in 1..Len(rows) |->
     [cells |-> rows[r], source_sheet |-> sheet_name, project_id |-> project_id,
      rate_card_type |-> rate_card_type]]

RateCardType(sheet_name) ==
  IF Contains(lower(sheet_name), "custom") THEN "custom"
  ELSE IF Contains(lower(sheet_name), "ext") THEN "external"
  ELSE "standard"

process_rate_card_sheet(df, sheet_name, header_row) ==
  LET columns == UniqueColumnsOf(df, header_row)
      rows == DataBelow(df, header_row)
      df_data == IF "market" \in SeqSet(columns) THEN DropNaAny(rows, columns, "market")
                 ELSE IF "title" \in SeqSet(columns) THEN DropNaAny(rows, columns, "title")
                 ELSE rows
  IN [frame |-> [columns |-> columns \o <<"rate_card_type", "source_sheet">>,
                 rows |-> TagRows(df_data, sheet_name, "", RateCardType(sheet_name))],
      row_count |-> Len(df_data)]

process_actuals_sheet(df, sheet_name, header_row, project_id) ==
  LET columns == UniqueColumnsOf(df, header_row)
      rows == DataBelow(df, header_row)
      df_data == IF "employee_name" \in SeqSet(columns)
                 THEN DropNaAny(rows, columns, "employee_name")
                 ELSE IF "market" \in SeqSet(columns) THEN DropNaAny(rows, columns, "market")
                 ELSE rows
  IN [frame |-> [columns |-> columns \o <<"source_sheet", "project_id">>,
                 rows |-> TagRows(df_data, sheet_name, project_id, "")],
      row_count |-> Len(df_data)]

process_costs_sheet(df, sheet_name, header_row, project_id) ==
  LET columns == UniqueColumnsOf(df, header_row)
      rows == DataBelow(df, header_row)
      df_data == IF "item" \in SeqSet(columns) THEN DropNaAny(rows, columns, "item") ELSE rows
  IN [frame |-> [columns |-> columns \o <<"source_sheet", "project_id">>,
                 rows |-> TagRows(df_data, sheet_name, project_id, "")],
      row_count |-> Len(df_data)]

\* investment_log, external_estimate and media: only row_count is used by the caller
OtherRowCount(df, sheet_type, header_row) ==
  LET columns == UniqueColumnsOf(df, header_row)
      rows == DataBelow(df, header_row)
  IN CASE sheet_type = "investment_log" ->
            Len(DropNaAll(rows, columns,
                          <<"investment_summary", "investment_amount", "date_identified">>))
       [] sheet_type = "external_estimate" ->
            Len(DropNaAll(rows, columns, <<"department", "role", "total_fee", "est_total_hours">>))
       [] sheet_type = "media" -> Len(DropNaAll(rows, columns, columns))
       [] OTHER -> 0

(***************************************************************************)
(* generate_project_id: the first 16 hex digits of the SHA-256 of          *)
(* "client|title|file|sheet".  The digest is represented by a polynomial   *)
(* hash of the key: like the digest it is a function of the key only.      *)
(***************************************************************************)
HashAlphabet == UpperAlpha \o LowerAlpha \o DigitChars \o " _|.-()"
HashModulus == 65521

\* the position of a character in the alphabet, 0 for any other character
HashCodes ==
  [c \in CharsOf(HashAlphabet) |->
     CHOOSE i \in 1..Len(HashAlphabet) : CharAt(HashAlphabet, i) = c]

Ord(c) == IF c \in DOMAIN HashCodes THEN HashCodes[c] ELSE 0

RECURSIVE Digest(_, _)
Digest(key, h) ==
  IF key = "" THEN h ELSE Digest(Tail(key), (h * 31 + Ord(Head(key))) % HashModulus)

sha256_hex16(key) == ToString(Digest(key, 7))

\* mutant: the id is salted with the run, as a time- or uuid-based id would be
generate_project_id_salted(client_name, project_title, source_file, source_sheet) ==
  sha256_hex16(client_name \o "|" \o project_title \o "|" \o source_file \o "|"
               \o source_sheet \o "|" \o ToString(runs))

generate_project_id(client_name, project_title, source_file, source_sheet) ==
  sha256_hex16(client_name \o "|" \o project_title \o "|" \o source_file \o "|" \o source_sheet)

(***************************************************************************)
(* process_workbook: one action per outcome of a loop iteration, then the  *)
(* concatenation of the collected frames.                                  *)
(***************************************************************************)
EmptyResults ==
  [allocations |-> <<>>, rate_cards |-> <<>>, actuals |-> <<>>, costs |-> <<>>,
   projects |-> <<>>, processing_log |-> <<>>,
   allocations_combined |-> <<>>, rate_cards_combined |-> <<>>,
   actuals_combined |-> <<>>, costs_combined |-> <<>>]

LogEntry(sheet, type, status, row_count, message) ==
  [sheet |-> sheet, type |-> type, status |-> status, row_count |-> row_count,
   message |-> message]

HeaderNotFoundMessage == "Could not find header row"

ProjectRecord(project_id, source_file, source_sheet) ==
  [project_id |-> project_id, source_file |-> source_file, source_sheet |-> source_sheet]

\* mutant: only the first collected frame reaches the combined table
ConcatRows_first_only(frames) == IF frames = <<>> THEN <<>> ELSE frames[1].rows

\* pd.concat(frames, ignore_index=True): the rows of the frames in order
ConcatRows(frames) == Flatten([f \in 1..Len(frames) |-> frames[f].rows])

HasDuplicates(q) == Cardinality(SeqSet(q)) < Len(q)

\* pd.concat raises InvalidIndexError when the frames' columns differ and one frame
\* has a repeated column label (it cannot be reindexed to the union of the columns)
ConcatRaises(frames) ==
  \E f, g \in 1..Len(frames) :
    frames[f].columns # frames[g].columns /\ HasDuplicates(frames[f].columns)

(***************************************************************************)
(* Specification of process_plan_sheet on bounded plan sheets: a header    *)
(* row followed by data rows.                                              *)
(***************************************************************************)
PlanLabels ==
  { Text("Role"), Text("Market"), Text("01"), Num(2), Text("01 1"), Text("Hours"),
    Text("01-Hours") }

DataCells == { NaN, Num(0), Num(5) }

\* a data row of the given width: odd columns hold a, even columns hold b
DataRow(width, a, b) == [c \in 1..width |-> IF c % 2 = 1 THEN a ELSE b]
DataRows(width) == {DataRow(width, a, b) : a \in DataCells, b \in DataCells}

PlanSheetName == "2025 Plan"
PlanProjectId == "p-2025"
NoResult ==
  [allocations |-> <<>>, row_count |-> 0, melted |-> FALSE, week_col_in_data |-> <<>>]

PlanInit ==
  /\ pc = "plan_start"
  /\ \E header \in (SeqsUpTo(PlanLabels, MaxPlanCols) \ {<<>>}) :
       \E rows \in (SeqsUpTo(DataRows(Len(header)), MaxDataRows) \ {<<>>}) :
         plan_df = <<header>> \o rows
  /\ plan_header_row = 0
  /\ plan_result = NoResult

ProcessPlanSheet ==
  /\ pc = "plan_start"
  /\ plan_result' = process_plan_sheet(plan_df, PlanSheetName, plan_header_row, PlanProjectId)
  /\ pc' = "plan_done"
  /\ UNCHANGED <<plan_df, plan_header_row, colVars, detVars, runVars, hdrVars, wbVars, mgVars,
                 extVars>>

(***************************************************************************)
(* Specification of the normalise-then-dedup pipeline on a header row.     *)
(***************************************************************************)
HeaderLabels ==
  { NaN, Num(1), Text("Role"), Text("role"), Text("Job  Role"), Text("Week"),
    Text("week 1"), Text("Week#1"), Text("01"), Text("01 1") }

ColsInit ==
  /\ pc = "cols_start"
  /\ raw_columns \in (SeqsUpTo(HeaderLabels, MaxCols) \ {<<>>})
  /\ normalized_columns = <<>>
  /\ unique_columns = <<>>

DetIdle == det_name = "" /\ det_tags = <<>>
MetaIdle == meta_df = <<>> /\ meta_header_row = 0 /\ sheet_metadata = <<>>
ProcIdle == proc_type = "" /\ proc_df = <<>> /\ proc_result = <<>>
UiIdle == sheet_info = <<>> /\ ui_steps = <<>> /\ ui_responses = 0 /\ ui_processed = <<>>
ExtIdle == MetaIdle /\ ProcIdle /\ UiIdle
RunIdle == run_pos = 0 /\ run_done = <<>> /\ run_plan_sheet = <<>> /\ run_rate_sheet = <<>>
ColsIdle == raw_columns = <<>> /\ normalized_columns = <<>> /\ unique_columns = <<>>
PlanIdle == plan_df = <<>> /\ plan_header_row = 0 /\ plan_result = NoResult
HdrIdle ==
  /\ hdr_df = <<>> /\ hdr_type = "" /\ hdr_max_rows = 0 /\ hdr_result = -1
  /\ hdr_inserted = 0 /\ hdr_shifted_result = -1

Normalize ==
  /\ pc = "cols_start"
  /\ normalized_columns' = [i \in 1..Len(raw_columns) |-> normalize_column_name(raw_columns[i])]
  /\ pc' = "cols_normalized"
  /\ UNCHANGED <<raw_columns, unique_columns, planVars, detVars, runVars, hdrVars, wbVars, mgVars,
                 extVars>>

MakeUnique ==
  /\ pc = "cols_normalized"
  /\ unique_columns' = make_columns_unique([i \in 1..Len(normalized_columns) |-> Text(normalized_columns[i])])
  /\ pc' = "cols_unique"
  /\ UNCHANGED <<raw_columns, normalized_columns, planVars, detVars, runVars, hdrVars, wbVars, mgVars,
                 extVars>>

(***************************************************************************)
(* Specification of find_header_row on bounded grids.                      *)
(***************************************************************************)
GridRows ==
  { <<NaN, NaN, NaN, NaN>>,
    <<Text("Project X"), NaN, NaN, NaN>>,
    <<Text("Market"), Text("Role"), NaN, NaN>>,
    <<Num(1), Num(2), Num(3), NaN>>,
    <<Text("Staffing"), Text("AMER"), Text("Dev"), Num(10)>>,
    <<Text("a"), Text("b"), Text("c"), Text("d")>>,
    <<Text("Category"), Text("Market"), Text("Role"), Text("01")>>,
    <<Text("Title"), Text("Cost Rate"), Text("Bill Rate"), NaN>> }

HeaderSheetTypes == {"plan", "rate_card", "media", "unknown"}

HdrInit ==
  /\ pc = "hdr_start"
  /\ hdr_df \in SeqsUpTo(GridRows, MaxGridRows)
  /\ hdr_type \in HeaderSheetTypes
  /\ hdr_max_rows \in {SmallMaxRows, DefaultMaxRows}
  /\ hdr_result = -1
  /\ hdr_inserted = 0
  /\ hdr_shifted_result = -1

FindHeaderRow ==
  /\ pc = "hdr_start"
  /\ hdr_result' = find_header_row(hdr_df, hdr_type, hdr_max_rows)
  /\ pc' = "hdr_done"
  /\ UNCHANGED <<hdr_df, hdr_type, hdr_max_rows, hdr_inserted, hdr_shifted_result, colVars, detVars, runVars,
                 planVars, wbVars, mgVars,
                 extVars>>

HdrNext == FindHeaderRow

(***************************************************************************)
(* Specification of detect_sheet_type on a pool of sheet names; the        *)
(* function is called up to MaxCalls times on the same name.               *)
(***************************************************************************)
SheetNamePool ==
  { "2025 Plan", "Plan", "Plan (v2)", "Allocation", "Forecast", "Staffing Plan", "Plan 2024",
    "Rate Card", "RateCard", "Custom Rates", "DeptApps Rate",
    "Actuals", "Timesheet", "Hours Log", "Pivot",
    "Costs", "Cost", "Expenses", "Vendor Costs", "Extras",
    "Investment Log", "Overrun",
    "Ext Estimate", "Client Estimate", "External Summary",
    "Media", "Media Plan", "Media Buy", "Media Plan 2025",
    "Info", " INFO ", "Information", "Change Log", "Version",
    "_Mapping", "_Custom", "_Plan", "Helper", "Mapping", "My Helper Sheet", "Data Mapping",
    "Staffing Helper", "Mapping Plan 2025",
    "Notes", "Sheet1", "Budget 2025", "", "Forecast Actuals", "Rate Card Actuals",
    "Overrun Change Log", "Vendor Costs Pivot" }

DetInit ==
  /\ pc = "det_start"
  /\ det_name \in SheetNamePool
  /\ det_tags = <<>>

DetectSheetType ==
  /\ pc = "det_start"
  /\ Len(det_tags) < MaxCalls
  /\ det_tags' = Append(det_tags, detect_sheet_type(det_name))
  /\ UNCHANGED <<pc, det_name, colVars, planVars, hdrVars, wbVars, mgVars, runVars,
                 extVars>>

DetNext == DetectSheetType

(***************************************************************************)
(* Specification of find_header_row on a grid and on the same grid with    *)
(* blank rows inserted at the top.                                         *)
(***************************************************************************)
GridWidth == 4
BlankRow == [c \in 1..GridWidth |-> NaN]
WithBlankRows(df, k) == [i \in 1..k |-> BlankRow] \o df

ShiftInit ==
  /\ pc = "shift_start"
  /\ hdr_df \in SeqsUpTo(GridRows, MaxShiftRows)
  /\ hdr_type \in HeaderSheetTypes
  /\ hdr_max_rows \in {SmallMaxRows, DefaultMaxRows}
  /\ hdr_result = -1
  /\ hdr_inserted = 0
  /\ hdr_shifted_result = -1

LocateOriginal ==
  /\ pc = "shift_start"
  /\ hdr_result' = find_header_row(hdr_df, hdr_type, hdr_max_rows)
  /\ pc' = "shift_located"
  /\ UNCHANGED <<hdr_df, hdr_type, hdr_max_rows, hdr_inserted, hdr_shifted_result, colVars, detVars, runVars,
                 planVars, wbVars, mgVars,
                 extVars>>

LocateShifted ==
  /\ pc = "shift_located"
  /\ \E k \in 1..MaxBlankRows :
       /\ hdr_inserted' = k
       /\ hdr_shifted_result' = find_header_row(WithBlankRows(hdr_df, k), hdr_type, hdr_max_rows)
  /\ pc' = "shift_done"
  /\ UNCHANGED <<hdr_df, hdr_type, hdr_max_rows, hdr_result, colVars, detVars, runVars, planVars, wbVars, mgVars,
                 extVars>>

ShiftNext == LocateOriginal \/ LocateShifted

(***************************************************************************)
(* Specification of process_workbook on bounded workbooks, followed by the *)
(* upload of the project records and a re-run on the same file.            *)
(* A sheet is its name, its grid as read by pd.read_excel(header=None) and *)
(* the outcome of the pandas calls on it: "ok", "read_error" (read_excel   *)
(* raises) or "process_error" (the type processor raises).                 *)
(***************************************************************************)
Sheet(name, df, outcome) == [name |-> name, df |-> df, outcome |-> outcome]

SheetPool ==
  { Sheet("2025 Plan",
          << <<Text("Client"), Text("Acme"), NaN, NaN>>,
             <<Text("Market"), Text("Role"), Text("01"), Text("02")>>,
             <<Text("AMER"), Text("Dev"), Num(10), Num(0)>> >>, "ok"),
    Sheet("Staffing Plan",
          << <<Text("Market"), Text("Role"), Num(1), Num(2)>>,
             <<NaN, NaN, Num(3), NaN>>,
             <<Text("EMEA"), Text("PM"), Num(5), Num(8)>> >>, "ok"),
    Sheet("Forecast",
          << <<Text("Draft"), NaN, NaN, NaN>>,
             <<Text("tbd"), Text("tbd"), NaN, NaN>> >>, "ok"),
    Sheet("Rate Card",
          << <<Text("Market"), Text("Role"), Text("Cost Rate"), Text("Bill Rate")>>,
             <<Text("AMER"), Text("Dev"), Num(50), Num(120)>>,
             <<NaN, Text("Dev"), Num(40), Num(90)>> >>, "ok"),
    Sheet("Custom Rates",
          << <<Text("Market"), Text("Rate"), Text("Rate"), Text("Rate 1")>>,
             <<Text("AMER"), Num(1), Num(2), Num(3)>> >>, "ok"),
    Sheet("_Mapping", << <<Text("a"), Text("b"), Text("c"), Text("d")>> >>, "ok"),
    Sheet("Notes", << <<Text("Market"), Text("Role"), Text("01"), NaN>> >>, "ok"),
    Sheet("Costs", <<>>, "ok"),
    Sheet("Actuals",
          << <<Text("Employee Name"), Text("Market"), Text("Hours"), Text("Date")>>,
             <<Text("Kim"), Text("AMER"), Num(8), NaN>> >>, "process_error"),
    Sheet("2024 Plan", <<>>, "read_error"),
    Sheet("Change Log",
          << <<Text("Version"), Text("Change"), Text("Author"), NaN>>,
             <<Num(1), Text("init"), Text("Kim"), NaN>> >>, "ok") }

SheetNames == {sheet.name : sheet \in SheetPool}

\* the sheet of the pool with the given name
SheetNamed == [name \in SheetNames |-> CHOOSE sheet \in SheetPool : sheet.name = name]

\* xlsx.sheet_names: sheet names are unique within a workbook
Workbooks ==
  {w \in SeqsUpTo(SheetNames, MaxSheets) : \A i, j \in 1..Len(w) : i # j => w[i] # w[j]}

client_name == "Acme"
project_title == "Site"
file_name == "book.xlsx"
ProcessorErrorMessage == "processor raised"

WbInit ==
  /\ pc = "wb_loop"
  /\ wb_sheets \in Workbooks
  /\ wb_i = 1
  /\ results = EmptyResults
  /\ bq_projects = <<>>
  /\ runs = 1

WbIdle ==
  wb_sheets = <<>> /\ wb_i = 0 /\ results = EmptyResults /\ bq_projects = <<>> /\ runs = 0

\* sheet_type = detect_sheet_type(sheet_name), tabulated over the sheets of the pool
SheetTypeOf == [sheet \in SheetPool |-> detect_sheet_type(sheet.name)]

\* header_row = find_header_row(df, sheet_type), tabulated over the non-empty sheets
HeaderRowOf ==
  [sheet \in {sh \in SheetPool : Len(sh.df) > 0} |->
     find_header_row(sheet.df, SheetTypeOf[sheet], DefaultMaxRows)]

InLoop == pc = "wb_loop" /\ wb_i <= Len(wb_sheets)
CurrentSheet == SheetNamed[wb_sheets[wb_i]]
SheetType == SheetTypeOf[CurrentSheet]
Handled == SheetType \notin {"skip", "unknown"}
Readable == CurrentSheet.outcome # "read_error"
HeaderRow == HeaderRowOf[CurrentSheet]

\* mutant: the header-less sheet still gets a project record
HeaderMissingOutcome_with_project(res, sheet_name, sheet_type) ==
  [res EXCEPT !.processing_log =
                 Append(@, LogEntry(sheet_name, sheet_type, "error", 0, HeaderNotFoundMessage)),
              !.projects = Append(@, ProjectRecord("", file_name, sheet_name))]

HeaderMissingOutcome(res, sheet_name, sheet_type) ==
  [res EXCEPT !.processing_log =
                 Append(@, LogEntry(sheet_name, sheet_type, "error", 0, HeaderNotFoundMessage))]

\* mutant: allocations are collected but no project record is created
PlanOutcome_no_project(res, sheet_name, result, project_id) ==
  [res EXCEPT !.allocations = IF Len(result.allocations) > 0
                              THEN Append(@, [rows |-> result.allocations]) ELSE @]

PlanOutcome(res, sheet_name, result, project_id) ==
  [res EXCEPT !.allocations = IF Len(result.allocations) > 0
                              THEN Append(@, [rows |-> result.allocations]) ELSE @,
              !.projects = Append(@, ProjectRecord(project_id, file_name, sheet_name))]

\* the body of the try block for a sheet of the given type with its header at header_row
ProcessedAs(res, sheet, sheet_type, header_row) ==
  LET project_id == generate_project_id(client_name, project_title, file_name, sheet.name)
      Logged(r, row_count) ==
        [r EXCEPT !.processing_log =
                     Append(@, LogEntry(sheet.name, sheet_type, "success", row_count, ""))]
  IN CASE sheet_type = "plan" ->
            LET result == process_plan_sheet(sheet.df, sheet.name, header_row, project_id)
            IN Logged(PlanOutcome(res, sheet.name, result, project_id), result.row_count)
       [] sheet_type = "rate_card" ->
            LET result == process_rate_card_sheet(sheet.df, sheet.name, header_row)
            IN Logged([res EXCEPT !.rate_cards = IF result.row_count > 0
                                                 THEN Append(@, result.frame) ELSE @],
                      result.row_count)
       [] sheet_type = "actuals" ->
            LET result == process_actuals_sheet(sheet.df, sheet.name, header_row, project_id)
            IN Logged([res EXCEPT !.actuals = IF result.row_count > 0
                                              THEN Append(@, result.frame) ELSE @],
                      result.row_count)
       [] sheet_type = "costs" ->
            LET result == process_costs_sheet(sheet.df, sheet.name, header_row, project_id)
            IN Logged([res EXCEPT !.costs = IF result.row_count > 0
                                            THEN Append(@, result.frame) ELSE @],
                      result.row_count)
       [] OTHER -> Logged(res, OtherRowCount(sheet.df, sheet_type, header_row))

Processed(res, sheet) == ProcessedAs(res, sheet, SheetTypeOf[sheet], HeaderRowOf[sheet])

\* lines 1419-1422: a sheet of type skip or unknown is passed over
SkipSheet ==
  /\ InLoop /\ ~Handled
  /\ wb_i' = wb_i + 1
  /\ UNCHANGED <<pc, wb_sheets, results, bq_projects, runs, colVars, detVars, runVars, planVars, hdrVars, mgVars,
                 extVars>>

\* line 1427: pd.read_excel raises outside the try block; process_workbook raises
ReadRaises ==
  /\ InLoop /\ Handled /\ ~Readable
  /\ pc' = "wb_raised"
  /\ UNCHANGED <<wb_sheets, wb_i, results, bq_projects, runs, colVars, detVars, runVars, planVars, hdrVars, mgVars,
                 extVars>>

\* lines 1429-1431: a sheet without rows is passed over
EmptySheet ==
  /\ InLoop /\ Handled /\ Readable
  /\ Len(CurrentSheet.df) = 0
  /\ wb_i' = wb_i + 1
  /\ UNCHANGED <<pc, wb_sheets, results, bq_projects, runs, colVars, detVars, runVars, planVars, hdrVars, mgVars,
                 extVars>>

\* lines 1434-1444
HeaderNotFound ==
  /\ InLoop /\ Handled /\ Readable
  /\ Len(CurrentSheet.df) > 0
  /\ HeaderRow < 0
  /\ results' = HeaderMissingOutcome(results, CurrentSheet.name, SheetType)
  /\ wb_i' = wb_i + 1
  /\ UNCHANGED <<pc, wb_sheets, bq_projects, runs, colVars, detVars, runVars, planVars, hdrVars, mgVars,
                 extVars>>

\* lines 1456-1545: the processor returns
ProcessSheet ==
  /\ InLoop /\ Handled /\ Readable
  /\ Len(CurrentSheet.df) > 0
  /\ HeaderRow >= 0
  /\ CurrentSheet.outcome = "ok"
  /\ results' = Processed(results, CurrentSheet)
  /\ wb_i' = wb_i + 1
  /\ UNCHANGED <<pc, wb_sheets, bq_projects, runs, colVars, detVars, runVars, planVars, hdrVars, mgVars,
                 extVars>>

\* lines 1547-1554: the processor raises, the except clause logs the sheet
ProcessorRaises ==
  /\ InLoop /\ Handled /\ Readable
  /\ Len(CurrentSheet.df) > 0
  /\ HeaderRow >= 0
  /\ CurrentSheet.outcome = "process_error"
  /\ results' = [results EXCEPT !.processing_log =
                    Append(@, LogEntry(CurrentSheet.name, SheetType, "error", 0,
                                       ProcessorErrorMessage))]
  /\ wb_i' = wb_i + 1
  /\ UNCHANGED <<pc, wb_sheets, bq_projects, runs, colVars, detVars, runVars, planVars, hdrVars, mgVars,
                 extVars>>

LoopDone == pc = "wb_loop" /\ wb_i > Len(wb_sheets)

\* allocation frames carry distinct labels; the frames of the other three lists keep
\* every column of the sheet
CombineFails ==
  ConcatRaises(results.rate_cards) \/ ConcatRaises(results.actuals)
    \/ ConcatRaises(results.costs)

\* lines 1561-1577
Combine ==
  /\ LoopDone /\ ~CombineFails
  /\ results' = [results EXCEPT !.allocations_combined = ConcatRows(results.allocations),
                                !.rate_cards_combined = ConcatRows(results.rate_cards),
                                !.actuals_combined = ConcatRows(results.actuals),
                                !.costs_combined = ConcatRows(results.costs)]
  /\ pc' = "wb_returned"
  /\ UNCHANGED <<wb_sheets, wb_i, bq_projects, runs, colVars, detVars, runVars, planVars, hdrVars, mgVars,
                 extVars>>

\* lines 1561-1575 are outside any try block
CombineRaises ==
  /\ LoopDone /\ CombineFails
  /\ pc' = "wb_raised"
  /\ UNCHANGED <<wb_sheets, wb_i, results, bq_projects, runs, colVars, detVars, runVars, planVars, hdrVars, mgVars,
                 extVars>>

\* upload_to_bigquery, lines 1615-1631: WRITE_APPEND of the project records
UploadProjects ==
  /\ pc = "wb_returned"
  /\ bq_projects' = bq_projects \o results.projects
  /\ pc' = "wb_uploaded"
  /\ UNCHANGED <<wb_sheets, wb_i, results, runs, colVars, detVars, runVars, planVars, hdrVars, mgVars,
                 extVars>>

\* the load job raises; the except clause prints the error
UploadRejected ==
  /\ pc = "wb_returned"
  /\ results.projects # <<>>
  /\ pc' = "wb_uploaded"
  /\ UNCHANGED <<wb_sheets, wb_i, results, bq_projects, runs, colVars, detVars, runVars, planVars, hdrVars, mgVars,
                 extVars>>

\* the same file is ingested again
Rerun ==
  /\ pc = "wb_uploaded"
  /\ runs < MaxRuns
  /\ runs' = runs + 1
  /\ wb_i' = 1
  /\ results' = EmptyResults
  /\ pc' = "wb_loop"
  /\ UNCHANGED <<wb_sheets, bq_projects, colVars, detVars, runVars, planVars, hdrVars, mgVars,
                 extVars>>

WbNext ==
  \/ SkipSheet \/ ReadRaises \/ EmptySheet \/ HeaderNotFound \/ ProcessSheet
  \/ ProcessorRaises \/ Combine \/ CombineRaises \/ UploadProjects \/ UploadRejected
  \/ Rerun

(***************************************************************************)
(* merge_and_calculate, in its two versions.  A row of the plan is its     *)
(* join key (market, department, role) and its hours; a row of the rate    *)
(* card is its key and its rates.                                          *)
(***************************************************************************)
NoReport == -1

\* mutant: the amounts are sums
Add(a, b) == IF isna(a) \/ isna(b) THEN NaN ELSE Num(a.n + b.n)

\* df['hours'] * df['rate']: null when either operand is null
Mul(a, b) == IF isna(a) \/ isna(b) THEN NaN ELSE Num(a.n * b.n)
fillna(a, v) == IF isna(a) THEN v ELSE a

\* mutant: an inner join, rows of the left frame without a match are dropped
InnerMerge(left, right) ==
  Flatten([i \in 1..Len(left) |->
    LET matches == SelectSeq(right, LAMBDA r : r.key = left[i].key)
    IN [m \in 1..Len(matches) |->
          [key |-> left[i].key, hours |-> left[i].hours, rate |-> matches[m].rate,
           cost_rate |-> matches[m].cost_rate, bill_rate |-> matches[m].bill_rate,
           merge |-> "both"]]])

\* pd.merge(left, right, on=keys, how='left', indicator=True): every left row, once per
\* right row with an equal key (null keys match null keys), once with nulls if none
LeftMerge(left, right) ==
  Flatten([i \in 1..Len(left) |->
    LET matches == SelectSeq(right, LAMBDA r : r.key = left[i].key)
    IN IF matches = <<>>
       THEN << [key |-> left[i].key, hours |-> left[i].hours, rate |-> NaN,
                cost_rate |-> NaN, bill_rate |-> NaN, merge |-> "left_only"] >>
       ELSE [m \in 1..Len(matches) |->
               [key |-> left[i].key, hours |-> left[i].hours, rate |-> matches[m].rate,
                cost_rate |-> matches[m].cost_rate, bill_rate |-> matches[m].bill_rate,
                merge |-> "both"]]])

\* (df_merged['_merge'] == 'left_only').sum()
CountUnmatched(merged) == Len(SelectSeq(merged, LAMBDA o : o.merge = "left_only"))

\* src/ingest.py
merge_and_calculate_ingest(plan, rate_card) ==
  LET merged_df == LeftMerge(plan, rate_card)
  IN [o \in 1..Len(merged_df) |->
        LET cost_rate == fillna(merged_df[o].cost_rate, Num(0))
            bill_rate == fillna(merged_df[o].bill_rate, Num(0))
        IN [key |-> merged_df[o].key, hours |-> merged_df[o].hours,
            cost_rate |-> cost_rate, bill_rate |-> bill_rate,
            forecasted_cost |-> Mul(merged_df[o].hours, cost_rate),
            forecasted_revenue |-> Mul(merged_df[o].hours, bill_rate)]]

\* src/financial_etl.py
merge_and_calculate_financial(plan, rate_card) ==
  LET df_merged == LeftMerge(plan, rate_card)
  IN [o \in 1..Len(df_merged) |->
        [key |-> df_merged[o].key, hours |-> df_merged[o].hours,
         rate |-> df_merged[o].rate,
         total_fees |-> Mul(df_merged[o].hours, df_merged[o].rate)]]

MergeKeys ==
  { <<Text("AMER"), Text("Eng"), Text("Dev")>>,
    <<Text("EMEA"), Text("Eng"), Text("Dev")>>,
    <<Text("AMER"), Text("Eng"), NaN>> }

\* a key that differs from the first of MergeKeys in letter case only
LowerCaseKey == <<Text("amer"), Text("eng"), Text("dev")>>

PlanRowPool ==
  {[key |-> k, hours |-> h] : k \in MergeKeys, h \in {NaN, Num(10)}}
    \cup {[key |-> LowerCaseKey, hours |-> Num(10)]}

RateRowPool ==
  {[key |-> k, rate |-> r, cost_rate |-> r,
    bill_rate |-> IF isna(r) THEN NaN ELSE Num(120)] :
     k \in MergeKeys, r \in {NaN, Num(50)}}

MergeInit ==
  /\ pc = "merge_start"
  /\ mg_variant \in {"ingest", "financial_etl"}
  /\ mg_plan \in SeqsUpTo(PlanRowPool, MaxMergeRows)
  /\ mg_rate_card \in SeqsUpTo(RateRowPool, MaxMergeRows)
  /\ mg_merged = <<>>
  /\ mg_unmatched = NoReport

MergeIdle ==
  /\ mg_variant = "" /\ mg_plan = <<>> /\ mg_rate_card = <<>> /\ mg_merged = <<>>
  /\ mg_unmatched = NoReport

\* src/ingest.py, lines 262-322: no count of the unmatched rows is computed
MergeIngest ==
  /\ pc = "merge_start"
  /\ mg_variant = "ingest"
  /\ mg_merged' = merge_and_calculate_ingest(mg_plan, mg_rate_card)
  /\ pc' = "merge_done"
  /\ UNCHANGED <<mg_variant, mg_plan, mg_rate_card, mg_unmatched, colVars, detVars, runVars, planVars, hdrVars,
                 wbVars,
                 extVars>>

\* src/financial_etl.py, lines 359-455
MergeFinancial ==
  /\ pc = "merge_start"
  /\ mg_variant = "financial_etl"
  /\ mg_merged' = merge_and_calculate_financial(mg_plan, mg_rate_card)
  /\ mg_unmatched' = CountUnmatched(LeftMerge(mg_plan, mg_rate_card))
  /\ pc' = "merge_done"
  /\ UNCHANGED <<mg_variant, mg_plan, mg_rate_card, colVars, detVars, runVars, planVars, hdrVars, wbVars,
                 extVars>>

MergeNext == MergeIngest \/ MergeFinancial

(***************************************************************************)
(* The runs of the entry points: main of src/ingest.py, run_etl of         *)
(* src/financial_etl.py and main of src/interactive_etl.py go through      *)
(* their steps in the order of their statements; a step that raises ends   *)
(* the run.  The plan sheet is given by its rows, one per role and week.   *)
(***************************************************************************)
\* mutant: the merge comes before the parsing of the sheets
MainSteps_merge_first(variant) ==
  IF variant = "ingest" THEN <<"find_input", "project_id", "merge", "plan", "rate_card", "load">>
  ELSE IF variant = "financial_etl" THEN <<"merge", "rate_card", "plan_metadata", "plan", "upload">>
  ELSE <<"analyze", "select", "metadata", "rate_card", "plan", "summary">>

MainSteps(variant) ==
  IF variant = "ingest" THEN <<"find_input", "project_id", "plan", "rate_card", "merge", "load">>
  ELSE IF variant = "financial_etl" THEN <<"rate_card", "plan_metadata", "plan", "merge", "upload">>
  ELSE <<"analyze", "select", "metadata", "rate_card", "plan", "summary">>

RoleOf(key) == key[3]

\* the allocation rows the plan parser of the entry point returns
parse_plan_sheet(variant, sheet) ==
  IF variant = "ingest"
  THEN LET kept == SelectSeq(sheet, LAMBDA a : notna(RoleOf(a.key)))
       IN [i \in 1..Len(kept) |-> [key |-> kept[i].key, hours |-> fillna(kept[i].hours, Num(0))]]
  ELSE SelectSeq(sheet, LAMBDA a : notna(a.hours) /\ a.hours # Num(0))

\* the rate rows the rate-card parser of the entry point returns
parse_rate_card_sheet(variant, sheet) ==
  IF variant = "ingest"
  THEN LET kept == SelectSeq(sheet, LAMBDA r : \E c \in 1..Len(r.key) : notna(r.key[c]))
       IN [i \in 1..Len(kept) |->
             [key |-> kept[i].key, rate |-> kept[i].rate,
              cost_rate |-> fillna(kept[i].cost_rate, Num(0)),
              bill_rate |-> fillna(kept[i].bill_rate, Num(0))]]
  ELSE IF variant = "financial_etl"
  THEN SelectSeq(sheet, LAMBDA r : (\E c \in 1..Len(r.key) : notna(r.key[c]))
                                   \/ notna(r.rate) \/ notna(r.cost_rate))
  ELSE SelectSeq(sheet, LAMBDA r : notna(RoleOf(r.key)))

RunKeys == { <<Text("AMER"), Text("Eng"), Text("Dev")>>, <<Text("AMER"), Text("Eng"), NaN>> }

RunPlanPool == {[key |-> k, hours |-> h] : k \in RunKeys, h \in {NaN, Num(0), Num(10)}}

RunRatePool ==
  {[key |-> k, rate |-> r, cost_rate |-> r, bill_rate |-> IF isna(r) THEN NaN ELSE Num(120)] :
     k \in RunKeys, r \in {NaN, Num(50)}}
  \cup {[key |-> <<NaN, NaN, NaN>>, rate |-> NaN, cost_rate |-> NaN, bill_rate |-> NaN]}

RunInit ==
  /\ pc = "run"
  /\ mg_variant \in {"ingest", "financial_etl", "interactive_etl"}
  /\ run_plan_sheet \in SeqsUpTo(RunPlanPool, MaxRunRows)
  /\ run_rate_sheet \in SeqsUpTo(RunRatePool, MaxRunRows)
  /\ run_pos = 1
  /\ run_done = <<>>
  /\ mg_plan = <<>>
  /\ mg_rate_card = <<>>
  /\ mg_merged = <<>>
  /\ mg_unmatched = NoReport

AtStep(step) ==
  /\ pc = "run"
  /\ run_pos <= Len(MainSteps(mg_variant))
  /\ MainSteps(mg_variant)[run_pos] = step

StepReturns ==
  /\ run_done' = Append(run_done, MainSteps(mg_variant)[run_pos])
  /\ run_pos' = run_pos + 1
  /\ pc' = IF run_pos' > Len(MainSteps(mg_variant)) THEN "run_returned" ELSE "run"

\* the rate-card sheet is parsed into the rate-card frame
RunRateCard ==
  /\ AtStep("rate_card")
  /\ mg_rate_card' = parse_rate_card_sheet(mg_variant, run_rate_sheet)
  /\ StepReturns
  /\ UNCHANGED <<mg_variant, mg_plan, mg_merged, mg_unmatched, run_plan_sheet, run_rate_sheet,
                 colVars, planVars, hdrVars, wbVars, detVars,
                 extVars>>

\* the plan sheet is parsed into the allocation frame
RunPlan ==
  /\ AtStep("plan")
  /\ mg_plan' = parse_plan_sheet(mg_variant, run_plan_sheet)
  /\ StepReturns
  /\ UNCHANGED <<mg_variant, mg_rate_card, mg_merged, mg_unmatched, run_plan_sheet,
                 run_rate_sheet, colVars, planVars, hdrVars, wbVars, detVars,
                 extVars>>

\* merge_and_calculate is called on the two frames
RunMerge ==
  /\ AtStep("merge")
  /\ IF mg_variant = "ingest"
     THEN /\ mg_merged' = merge_and_calculate_ingest(mg_plan, mg_rate_card)
          /\ UNCHANGED mg_unmatched
     ELSE /\ mg_merged' = merge_and_calculate_financial(mg_plan, mg_rate_card)
          /\ mg_unmatched' = CountUnmatched(LeftMerge(mg_plan, mg_rate_card))
  /\ StepReturns
  /\ UNCHANGED <<mg_variant, mg_plan, mg_rate_card, run_plan_sheet, run_rate_sheet,
                 colVars, planVars, hdrVars, wbVars, detVars,
                 extVars>>

\* the steps that neither parse a sheet nor merge
RunOtherStep ==
  /\ \E step \in {"find_input", "project_id", "plan_metadata", "upload", "load",
                   "analyze", "select", "metadata", "summary"} : AtStep(step)
  /\ StepReturns
  /\ UNCHANGED <<mgVars, run_plan_sheet, run_rate_sheet, colVars, planVars, hdrVars, wbVars,
                 detVars,
                 extVars>>

\* the step at hand raises (file or sheet not found, required column missing): the run ends
RunStepRaises ==
  /\ pc = "run"
  /\ run_pos <= Len(MainSteps(mg_variant))
  /\ pc' = "run_aborted"
  /\ UNCHANGED <<mgVars, runVars, colVars, planVars, hdrVars, wbVars, detVars,
                 extVars>>

RunNext == RunRateCard \/ RunPlan \/ RunMerge \/ RunOtherStep \/ RunStepRaises

(***************************************************************************)
(* Specification of one iteration of the loop of process_workbook on a     *)
(* plan sheet: rows of project information, then possibly the header row   *)
(* and a data row.                                                         *)
(***************************************************************************)
PreambleRows ==
  { <<NaN, NaN, NaN, NaN, NaN, NaN>>,
    <<Text("Client"), Text("Acme"), NaN, NaN, NaN, NaN>>,
    <<Text("Prepared"), Text("by"), Text("Finance"), NaN, NaN, NaN>> }

ScenarioHeader ==
  <<Text("Category"), Text("Market"), Text("Department"), Text("Role"), Text("01"), Text("02")>>

ScenarioData == <<Text("Staffing"), Text("AMER"), Text("Eng"), Text("Dev"), Num(10), Num(0)>>

\* a plan sheet that has a column named Hours next to its period column
OverlapHeader ==
  <<Text("Category"), Text("Market"), Text("Department"), Text("Role"), Text("01"), Text("Hours")>>

OverlapData == <<Text("Staffing"), Text("AMER"), Text("Eng"), Text("Dev"), Num(10), Num(10)>>

ScenarioSheetNames == {"2025 Plan", "Notes", "_Plan"}

SheetInit ==
  /\ pc = "sheet_start"
  /\ det_name \in ScenarioSheetNames
  /\ \E preamble \in SeqsUpTo(PreambleRows, MaxPreambleRows) :
       \E body \in {<<>>, <<ScenarioHeader, ScenarioData>>, <<OverlapHeader, OverlapData>>} :
         plan_df = preamble \o body
  /\ hdr_type = ""
  /\ plan_header_row = 0
  /\ plan_result = NoResult

\* lines 1417-1422: the sheet is classified; skip and unknown sheets are passed over
SheetDetect ==
  /\ pc = "sheet_start"
  /\ hdr_type' = detect_sheet_type(det_name)
  /\ pc' = IF hdr_type' \in {"skip", "unknown"} THEN "sheet_skipped" ELSE "sheet_typed"
  /\ UNCHANGED <<hdr_df, hdr_max_rows, hdr_result, hdr_inserted, hdr_shifted_result, det_name,
                 det_tags, planVars, colVars, wbVars, mgVars, runVars,
                 extVars>>

\* lines 1427-1443: the sheet is read and its header row is looked for
SheetLocate ==
  /\ pc = "sheet_typed"
  /\ IF Len(plan_df) = 0
     THEN pc' = "sheet_empty" /\ UNCHANGED <<plan_header_row, results,
                 extVars>>
     ELSE /\ plan_header_row' = find_header_row(plan_df, hdr_type, DefaultMaxRows)
          /\ pc' = IF plan_header_row' < 0 THEN "sheet_no_header" ELSE "sheet_located"
          /\ results' = IF plan_header_row' < 0
                        THEN HeaderMissingOutcome(results, det_name, hdr_type)
                        ELSE results
  /\ UNCHANGED <<plan_df, plan_result, hdrVars, detVars, colVars, wb_sheets, wb_i, bq_projects,
                 runs, mgVars, runVars,
                 extVars>>

\* lines 1447-1545: the plan processor runs on the sheet, its result is collected and logged
SheetProcess ==
  /\ pc = "sheet_located"
  /\ hdr_type = "plan"
  /\ LET project_id == generate_project_id(client_name, project_title, file_name, det_name)
         result == process_plan_sheet(plan_df, det_name, plan_header_row, project_id)
         collected == PlanOutcome(results, det_name, result, project_id)
     IN /\ plan_result' = result
        /\ results' = [collected EXCEPT !.processing_log =
                          Append(@, LogEntry(det_name, hdr_type, "success", result.row_count, ""))]
  /\ pc' = "sheet_done"
  /\ UNCHANGED <<plan_df, plan_header_row, hdrVars, detVars, colVars, wb_sheets, wb_i,
                 bq_projects, runs, mgVars, runVars,
                 extVars>>

SheetNext == SheetDetect \/ SheetLocate \/ SheetProcess

(***************************************************************************)
(* extract_sheet_metadata: the scan of the rows above the header row.      *)
(* A dict is a function on its keys; an entry of raw_metadata is a record  *)
(* with all of row, label, value, category, key and kind, where kind tells *)
(* which statement appended it and the fields the source leaves out are    *)
(* empty.                                                                  *)
(***************************************************************************)
RECURSIVE upper(_)
upper(s) == IF s = "" THEN "" ELSE UpperChar(Head(s)) \o upper(Tail(s))

\* str.isalpha() and str.isupper()
isalpha(s) == s # "" /\ \A i \in 1..Len(s) : IsUpperChar(CharAt(s, i)) \/ IsLowerChar(CharAt(s, i))
isupper(s) ==
  /\ \E i \in 1..Len(s) : IsUpperChar(CharAt(s, i))
  /\ \A i \in 1..Len(s) : ~IsLowerChar(CharAt(s, i))

VALID_MARKET_CODES ==
  { "DPUS", "CXUS", "EXUS", "MTUS", "AMER", "EMEA", "APAC", "LATAM",
    "NA", "EU", "UK", "US", "CA", "AU", "GLOBAL", "CORP" }

INVALID_MARKET_VALUES ==
  { "total hours", "total fees", "total cost", "gross margin",
    "category", "department", "role", "notes", "employee",
    "bill rate", "cost rate", "hours", "fees", "costs" }

is_valid_market_value(val) ==
  IF isna(val) THEN FALSE
  ELSE LET val_str == upper(strip(PyStr(val)))
           val_lower == lower(strip(PyStr(val)))
       IN IF val_str \in VALID_MARKET_CODES THEN TRUE
          ELSE IF val_lower \in INVALID_MARKET_VALUES THEN FALSE
          ELSE Len(val_str) <= 6 /\ isalpha(val_str) /\ isupper(val_str)

\* label pattern, category, key_name, in the order of the dict
known_labels ==
  << <<"client", "project_info", "client">>,
     <<"client (info)", "project_info", "client">>,
     <<"project title", "project_info", "project_title">>,
     <<"project title (info)", "project_info", "project_title">>,
     <<"project number", "project_info", "project_number">>,
     <<"project number (info)", "project_info", "project_number">>,
     <<"start date", "project_info", "start_date">>,
     <<"start date (required)", "project_info", "start_date">>,
     <<"end date", "project_info", "end_date">>,
     <<"market", "configuration", "market">>,
     <<"market (required)", "configuration", "market">>,
     <<"company", "configuration", "company">>,
     <<"company (required)", "configuration", "company">>,
     <<"rate card", "configuration", "rate_card">>,
     <<"rate card (required)", "configuration", "rate_card">>,
     <<"billing type", "configuration", "billing_type">>,
     <<"billing type (info)", "configuration", "billing_type">>,
     <<"hour mode", "configuration", "hour_mode">>,
     <<"total project fee", "financial_summary", "total_project_fee">>,
     <<"estimated gross margin", "financial_summary", "estimated_gross_margin">>,
     <<"target gm%", "financial_summary", "target_gm_pct">>,
     <<"target gm% / fee", "financial_summary", "target_gm_pct">>,
     <<"billable labor fees", "financial_summary", "billable_labor_fees">>,
     <<"additional billable fees", "financial_summary", "additional_billable_fees">>,
     <<"passthrough", "financial_summary", "passthrough">>,
     <<"labor costs", "financial_summary", "labor_costs">>,
     <<"investment costs", "financial_summary", "investment_costs">>,
     <<"total hours", "financial_summary", "total_hours">>,
     <<"total cost", "financial_summary", "total_cost">>,
     <<"gross margin", "financial_summary", "gross_margin">>,
     <<"fixed fee", "configuration", "fixed_fee">>,
     <<"fixed fee (optional)", "configuration", "fixed_fee">>,
     <<"fixed % discount", "configuration", "fixed_discount_pct">>,
     <<"blended rate", "configuration", "blended_rate">> >>

value_patterns ==
  << "weekly (fixed 40)", "weekly (fixed 35)", "monthly (fixed 150)",
     "fixed fee", "t&m", "retainer", "hybrid" >>

MaxMetadataRows == 50
MaxMetadataCols == 30
MaxLabelLen == 50
MaxCodeLen == 10

EmptyMetadata ==
  [project_info |-> <<>>, financial_summary |-> <<>>, configuration |-> <<>>,
   raw_metadata |-> <<>>]

RawEntry(row, label, value, category, key, kind) ==
  [row |-> row, label |-> label, value |-> value, category |-> category, key |-> key,
   kind |-> kind]

\* metadata[category][key_name] = value
SetKey(metadata, category, key_name, value) ==
  [metadata EXCEPT ![category] = (key_name :> value) @@ @]

AppendRaw(metadata, entry) == [metadata EXCEPT !.raw_metadata = Append(@, entry)]

\* val_lower == label_pattern or (label_pattern in val_lower and len(val_lower) < 50)
LabelMatches(val_lower, label_pattern) ==
  val_lower = label_pattern \/ (Contains(val_lower, label_pattern) /\ Len(val_lower) < MaxLabelLen)

\* the loop over known_labels for the cell at position c (1-based) of the row with index
\* idx: a matching label whose market value is invalid is passed over (continue), the
\* first other matching label ends the loop (break) after storing the pair, if there is one
LabelLoop(metadata, labels, row, c, idx) ==
  LET val == row[c]
      has_value == c < Len(row) /\ notna(row[c + 1])
      Stops(k) ==
        /\ LabelMatches(strip(lower(val.s)), labels[k][1])
        /\ ~(has_value /\ labels[k][3] = "market" /\ ~is_valid_market_value(row[c + 1]))
  IN IF \E k \in 1..Len(labels) : Stops(k)
     THEN LET k == CHOOSE j \in 1..Len(labels) : Stops(j) /\ \A i \in 1..(j - 1) : ~Stops(i)
          IN IF has_value
             THEN AppendRaw(SetKey(metadata, labels[k][2], labels[k][3], row[c + 1]),
                            RawEntry(idx + 1, val, row[c + 1], labels[k][2], labels[k][3],
                                     "label"))
             ELSE metadata
     ELSE metadata

\* the loop over value_patterns: the first pattern contained in the cell decides
ValuePatternStep(metadata, val, idx) ==
  LET val_lower == strip(lower(val.s))
  IN IF \E k \in 1..Len(value_patterns) : Contains(val_lower, value_patterns[k])
     THEN AppendRaw(
            IF Contains(val_lower, "weekly") \/ Contains(val_lower, "monthly")
            THEN SetKey(metadata, "configuration", "hour_mode", val)
            ELSE IF val_lower \in {"fixed fee", "t&m", "retainer", "hybrid"}
                 THEN SetKey(metadata, "configuration", "billing_type", val)
                 ELSE metadata,
            RawEntry(idx + 1, Text("detected_value"), val, "", "", "detected_value"))
     ELSE metadata

\* standalone market codes
MarketCodeStep(metadata, val, idx) ==
  LET val_upper == upper(strip(val.s))
  IN IF Len(val.s) <= MaxCodeLen /\ val_upper \in VALID_MARKET_CODES
     THEN AppendRaw(
            IF "market" \notin DOMAIN metadata.configuration
            THEN SetKey(metadata, "configuration", "market", Text(val_upper))
            ELSE metadata,
            RawEntry(idx + 1, Text("market_code"), Text(val_upper), "", "", "market_code"))
     ELSE metadata

\* col 0 has a label and col 1 has a number
NumberStep(metadata, row, c, idx) ==
  IF c = 1 /\ c < Len(row) /\ isnum(row[c + 1])
  THEN AppendRaw(metadata, RawEntry(idx + 1, row[c], row[c + 1], "", "", "number"))
  ELSE metadata

\* the body of the loop over the columns, for one cell
CellStep(metadata, row, c, idx) ==
  IF isna(row[c]) THEN metadata
  ELSE IF ~isstr(row[c]) THEN metadata
  ELSE NumberStep(
         MarketCodeStep(
           ValuePatternStep(LabelLoop(metadata, known_labels, row, c, idx), row[c], idx),
           row[c], idx),
         row, c, idx)

RECURSIVE RowScan(_, _, _, _)
RowScan(metadata, row, c, idx) ==
  IF c > Min(Len(row), MaxMetadataCols) THEN metadata
  ELSE RowScan(CellStep(metadata, row, c, idx), row, c + 1, idx)

RECURSIVE FirstPass(_, _, _, _)
FirstPass(metadata, df, idx, header_row) ==
  IF idx >= Min(header_row, MaxMetadataRows) THEN metadata
  ELSE FirstPass(RowScan(metadata, df[idx + 1], 1, idx), df, idx + 1, header_row)

\* the column 3-4 pattern of one row
SummaryStep(metadata, row, idx) ==
  IF Len(row) > 4 /\ isstr(row[4]) /\ isnum(row[5])
  THEN LET label_lower == strip(lower(row[4].s))
           num_val == row[5]
           Fin(key) == SetKey(metadata, "financial_summary", key, num_val)
       IN AppendRaw(
            IF Contains(label_lower, "billable") /\ Contains(label_lower, "fee")
            THEN Fin("billable_fees")
            ELSE IF Contains(label_lower, "passthrough") THEN Fin("passthrough")
            ELSE IF Contains(label_lower, "investment") THEN Fin("investment_costs")
            ELSE IF Contains(label_lower, "total hours") THEN Fin("total_hours")
            ELSE IF Contains(label_lower, "total cost") THEN Fin("total_cost")
            ELSE IF Contains(label_lower, "labor cost") THEN Fin("labor_costs")
            ELSE metadata,
            RawEntry(idx + 1, row[4], num_val, "", "", "col3"))
  ELSE metadata

RECURSIVE SecondPass(_, _, _, _)
SecondPass(metadata, df, idx, header_row) ==
  IF idx >= Min(header_row, MaxMetadataRows) THEN metadata
  ELSE SecondPass(SummaryStep(metadata, df[idx + 1], idx), df, idx + 1, header_row)

extract_sheet_metadata(df, header_row) ==
  SecondPass(FirstPass(EmptyMetadata, df, 0, header_row), df, 0, header_row)

(***************************************************************************)
(* Specification of extract_sheet_metadata on bounded sheets: rows of      *)
(* project information above a header row.                                 *)
(***************************************************************************)
MetaRow(a, b, d, e) == <<a, b, NaN, d, e>>

MetaRowPool ==
  { MetaRow(Text("Market"), Text("TOTAL"), NaN, NaN),
    MetaRow(Text("Market"), Text("AMER"), NaN, NaN),
    MetaRow(Text("Market"), Text("Total Hours"), NaN, NaN),
    MetaRow(Text("Market"), Text("Sales"), NaN, NaN),
    MetaRow(Text("Market"), Text("Role"), NaN, NaN),
    MetaRow(Text("Market"), Text("EUROPEAN"), NaN, NaN),
    MetaRow(Text("Market"), Num(5), NaN, NaN),
    MetaRow(Text("Market (Required)"), Text("emea"), NaN, NaN),
    MetaRow(NaN, Text("EMEA"), NaN, NaN),
    MetaRow(Text("Client"), Text("Acme"), Text("Billable Fees"), Num(100)),
    MetaRow(Text("Headcount"), Num(5), Text("Misc"), Num(7)),
    MetaRow(Text("Billing Type"), Text("T&M"), NaN, NaN),
    MetaRow(Text("Start Date"), NaN, NaN, NaN) }

MetaHeaderRow == <<Text("Market"), Text("Role"), Text("01"), Text("02"), Text("03")>>

MetaInit ==
  /\ pc = "meta_start"
  /\ \E rows \in SeqsUpTo(MetaRowPool, MaxMetaRows) :
       /\ meta_df = rows \o <<MetaHeaderRow>>
       /\ meta_header_row = Len(rows)
  /\ sheet_metadata = <<>>

ExtractSheetMetadata ==
  /\ pc = "meta_start"
  /\ sheet_metadata' = extract_sheet_metadata(meta_df, meta_header_row)
  /\ pc' = "meta_done"
  /\ UNCHANGED <<meta_df, meta_header_row, colVars, planVars, hdrVars, wbVars, mgVars,
                 detVars, runVars, procVars, uiVars>>

MetaNext == ExtractSheetMetadata

(***************************************************************************)
(* Interactive mode: run_interactive_mode opens the workbook, prints the   *)
(* sheet summary, lets the user change the selection, asks for the project *)
(* metadata, shows the preview and, if the user confirms, processes the    *)
(* selected sheets.  ui_steps records the steps that returned; the answer  *)
(* given to the preview is recorded as "preview=" followed by the answer.  *)
(***************************************************************************)
\* s.split(ch)
RECURSIVE Split(_, _, _)
Split(s, ch, current) ==
  IF s = "" THEN <<current>>
  ELSE IF Head(s) = ch THEN <<current>> \o Split(Tail(s), ch, "")
  ELSE Split(Tail(s), ch, current \o Head(s))

\* s.replace(' ', '')
RECURSIVE RemoveSpaces(_)
RemoveSpaces(s) ==
  IF s = "" THEN "" ELSE (IF Head(s) = " " THEN "" ELSE Head(s)) \o RemoveSpaces(Tail(s))

\* list(range(a, b + 1))
RangeList(a, b) == [i \in 1..(IF b >= a THEN b - a + 1 ELSE 0) |-> a + i - 1]

\* one comma-separated part: int(part) succeeds on a string of digits
ParsePart(part) ==
  IF Contains(part, "-")
  THEN LET ends == Split(part, "-", "")
       IN IF Len(ends) = 2 /\ IsDigits(ends[1]) /\ IsDigits(ends[2])
          THEN RangeList(ParseInt(ends[1]), ParseInt(ends[2]))
          ELSE <<>>
  ELSE IF IsDigits(part) THEN <<ParseInt(part)>> ELSE <<>>

parse_number_input(s) ==
  LET parts == Split(RemoveSpaces(s), ",", "")
  IN Flatten([k \in 1..Len(parts) |-> ParsePart(parts[k])])

UnselectedTypes == {"skip", "unknown", "mapping", "info"}
ChangeableTypes ==
  {"plan", "rate_card", "actuals", "costs", "investment_log", "external_estimate", "skip"}

\* print_sheet_summary
SheetInfoOf(sheet_names) ==
  [i \in 1..Len(sheet_names) |->
     [index |-> i, name |-> sheet_names[i],
      detected_type |-> detect_sheet_type(sheet_names[i]),
      row_count |-> Len(SheetNamed[sheet_names[i]].df),
      selected |-> detect_sheet_type(sheet_names[i]) \notin UnselectedTypes]]

\* [s for s in sheet_info if s['selected']]
SelectedSheets(info) == SelectSeq(info, LAMBDA s : s.selected)

\* the numbers response: selection toggled for the listed indices
Toggled(info, indices) ==
  [i \in 1..Len(info) |->
     IF info[i].index \in SeqSet(indices) THEN [info[i] EXCEPT !.selected = ~@] ELSE info[i]]

\* the s response: all deselected, then the listed indices selected
ManuallySelected(info, indices) ==
  [i \in 1..Len(info) |-> [info[i] EXCEPT !.selected = info[i].index \in SeqSet(indices)]]

\* the c response
TypeChanged(info, num, new_type) ==
  IF IsDigits(num) /\ new_type \in ChangeableTypes
  THEN [i \in 1..Len(info) |->
          IF info[i].index = ParseInt(num)
          THEN [info[i] EXCEPT !.detected_type = new_type, !.selected = new_type # "skip"]
          ELSE info[i]]
  ELSE info

\* mutant: any answer to the preview counts as a confirmation
Confirms_any(answer) == TRUE

\* confirm in ['y', 'yes', '']
Confirms(answer) == answer \in {"y", "yes", ""}

UiSheetNames == {"2025 Plan", "Rate Card", "Notes", "_Mapping"}
NumberInputs == {"1", "2", "1-2", "2, 1", "x"}
TypeInputs == {"rate_card", "skip", "media"}
PreviewAnswers == {"y", "yes", "", "n"}

UiInit ==
  /\ pc = "ui_start"
  /\ wb_sheets \in {w \in SeqsUpTo(UiSheetNames, MaxUiSheets) :
                     w # <<>> /\ \A i, j \in 1..Len(w) : i # j => w[i] # w[j]}
  /\ wb_i = 0 /\ results = EmptyResults /\ bq_projects = <<>> /\ runs = 0
  /\ UiIdle

\* lines 1143-1147: pd.ExcelFile raises
UiOpenFails ==
  /\ pc = "ui_start"
  /\ pc' = "ui_none"
  /\ UNCHANGED <<wbVars, uiVars, colVars, planVars, hdrVars, mgVars, detVars, runVars,
                 metaVars, procVars>>

\* line 1150
PrintSheetSummary ==
  /\ pc = "ui_start"
  /\ sheet_info' = SheetInfoOf(wb_sheets)
  /\ ui_steps' = Append(ui_steps, "summary")
  /\ pc' = "ui_select"
  /\ UNCHANGED <<wbVars, ui_responses, ui_processed, colVars, planVars, hdrVars, mgVars,
                 detVars, runVars, metaVars, procVars>>

\* interactive_sheet_selection, lines 1029-1040: numbers toggle the selection
SelectToggle ==
  /\ pc = "ui_select" /\ ui_responses < MaxResponses
  /\ \E response \in NumberInputs :
       sheet_info' = Toggled(sheet_info, parse_number_input(response))
  /\ ui_responses' = ui_responses + 1
  /\ UNCHANGED <<pc, wbVars, ui_steps, ui_processed, colVars, planVars, hdrVars, mgVars,
                 detVars, runVars, metaVars, procVars>>

\* lines 1011-1027: c changes the type of one sheet
SelectChangeType ==
  /\ pc = "ui_select" /\ ui_responses < MaxResponses
  /\ \E num \in {"1", "2", "x"}, new_type \in TypeInputs :
       sheet_info' = TypeChanged(sheet_info, num, new_type)
  /\ ui_responses' = ui_responses + 1
  /\ UNCHANGED <<pc, wbVars, ui_steps, ui_processed, colVars, planVars, hdrVars, mgVars,
                 detVars, runVars, metaVars, procVars>>

\* lines 996-998: ENTER accepts the selection
SelectAccept ==
  /\ pc = "ui_select"
  /\ ui_steps' = Append(ui_steps, "selection")
  /\ pc' = "ui_selected"
  /\ UNCHANGED <<wbVars, sheet_info, ui_responses, ui_processed, colVars, planVars, hdrVars,
                 mgVars, detVars, runVars, metaVars, procVars>>

\* lines 1000-1009: s deselects all and selects the listed sheets
SelectManual ==
  /\ pc = "ui_select"
  /\ \E nums \in NumberInputs :
       sheet_info' = ManuallySelected(sheet_info, parse_number_input(nums))
  /\ ui_steps' = Append(ui_steps, "selection")
  /\ pc' = "ui_selected"
  /\ UNCHANGED <<wbVars, ui_responses, ui_processed, colVars, planVars, hdrVars, mgVars,
                 detVars, runVars, metaVars, procVars>>

\* lines 1155-1158
NoSheetSelected ==
  /\ pc = "ui_selected"
  /\ SelectedSheets(sheet_info) = <<>>
  /\ pc' = "ui_none"
  /\ UNCHANGED <<wbVars, uiVars, colVars, planVars, hdrVars, mgVars, detVars, runVars,
                 metaVars, procVars>>

\* line 1161
MetadataInput ==
  /\ pc = "ui_selected"
  /\ SelectedSheets(sheet_info) # <<>>
  /\ ui_steps' = Append(ui_steps, "metadata")
  /\ pc' = "ui_preview"
  /\ UNCHANGED <<wbVars, sheet_info, ui_responses, ui_processed, colVars, planVars, hdrVars,
                 mgVars, detVars, runVars, metaVars, procVars>>

\* lines 1164-1166 and show_processing_preview, lines 1128-1130
Preview ==
  /\ pc = "ui_preview"
  /\ \E answer \in PreviewAnswers :
       /\ ui_steps' = Append(ui_steps, "preview=" \o answer)
       /\ pc' = IF Confirms(answer) THEN "ui_process" ELSE "ui_none"
       /\ wb_i' = IF Confirms(answer) THEN 1 ELSE wb_i
  /\ UNCHANGED <<wb_sheets, results, bq_projects, runs, sheet_info, ui_responses,
                 ui_processed, colVars, planVars, hdrVars, mgVars, detVars, runVars, metaVars,
                 procVars>>

\* process_workbook_with_selections, lines 1206-1339: one iteration of the loop
SelectionOutcome(res, entry) ==
  LET sheet == SheetNamed[entry.name]
      header_row == find_header_row(sheet.df, entry.detected_type, DefaultMaxRows)
  IN IF Len(sheet.df) = 0 THEN res
     ELSE IF header_row < 0 THEN HeaderMissingOutcome(res, entry.name, entry.detected_type)
     ELSE ProcessedAs(res, sheet, entry.detected_type, header_row)

ProcessSelected ==
  /\ pc = "ui_process"
  /\ wb_i <= Len(SelectedSheets(sheet_info))
  /\ results' = SelectionOutcome(results, SelectedSheets(sheet_info)[wb_i])
  /\ ui_processed' = Append(ui_processed, SelectedSheets(sheet_info)[wb_i].name)
  /\ wb_i' = wb_i + 1
  /\ UNCHANGED <<pc, wb_sheets, bq_projects, runs, sheet_info, ui_steps, ui_responses,
                 colVars, planVars, hdrVars, mgVars, detVars, runVars, metaVars, procVars>>

\* lines 1354-1372: the collected frames are concatenated and results returned
ReturnResults ==
  /\ pc = "ui_process"
  /\ wb_i > Len(SelectedSheets(sheet_info))
  /\ ~CombineFails
  /\ results' = [results EXCEPT !.allocations_combined = ConcatRows(results.allocations),
                                !.rate_cards_combined = ConcatRows(results.rate_cards),
                                !.actuals_combined = ConcatRows(results.actuals),
                                !.costs_combined = ConcatRows(results.costs)]
  /\ pc' = "ui_returned"
  /\ UNCHANGED <<wb_sheets, wb_i, bq_projects, runs, uiVars, colVars, planVars, hdrVars,
                 mgVars, detVars, runVars, metaVars, procVars>>

UiNext ==
  \/ UiOpenFails \/ PrintSheetSummary \/ SelectToggle \/ SelectChangeType \/ SelectAccept
  \/ SelectManual \/ NoSheetSelected \/ MetadataInput \/ Preview \/ ProcessSelected
  \/ ReturnResults

(***************************************************************************)
(* Specification of the empty-row filters of the plan, actuals and costs   *)
(* processors: one processor runs on a sheet made of a header row and data *)
(* rows, the header in row 0.                                              *)
(***************************************************************************)
ProcHeaders ==
  [plan |-> { <<Text("Market"), Text("Department"), Text("Role"), Text("Employee Name")>>,
              <<Text("Market"), Text("Role"), Text("Notes")>> },
   actuals |-> { <<Text("Employee Name"), Text("Market"), Text("Department"), Text("Role")>>,
                 <<Text("Market"), Text("Department"), Text("Role")>> },
   costs |-> { <<Text("Item"), Text("Total Cost")>>,
               <<Text("Notes"), Text("Item"), Text("Market")>> }]

ProcCells == {NaN, Text("x")}

ProcRowsOf(width) == [1..width -> ProcCells]

ProcSheetName == "Sheet A"
ProcProjectId == "p-proc"

ProcInit ==
  /\ pc = "proc_start"
  /\ proc_type \in DOMAIN ProcHeaders
  /\ \E header \in ProcHeaders[proc_type] :
       \E rows \in (SeqsUpTo(ProcRowsOf(Len(header)), MaxProcRows) \ {<<>>}) :
         proc_df = <<header>> \o rows
  /\ proc_result = <<>>

\* process_plan_sheet, process_actuals_sheet or process_costs_sheet on the sheet
RunProcessor ==
  /\ pc = "proc_start"
  /\ proc_result' =
       CASE proc_type = "plan" -> process_plan_sheet(proc_df, ProcSheetName, 0, ProcProjectId)
         [] proc_type = "actuals" ->
              process_actuals_sheet(proc_df, ProcSheetName, 0, ProcProjectId)
         [] OTHER -> process_costs_sheet(proc_df, ProcSheetName, 0, ProcProjectId)
  /\ pc' = "proc_done"
  /\ UNCHANGED <<proc_type, proc_df, colVars, planVars, hdrVars, wbVars, mgVars, detVars,
                 runVars, metaVars, uiVars>>

ProcNext == RunProcessor

ColsNext == Normalize \/ MakeUnique

InitCols == ColsInit /\ PlanIdle /\ HdrIdle /\ WbIdle /\ MergeIdle /\ DetIdle /\ RunIdle /\ ExtIdle
SpecCols == InitCols /\ [][ColsNext]_vars

PlanNext == ProcessPlanSheet
InitPlan == PlanInit /\ ColsIdle /\ HdrIdle /\ WbIdle /\ MergeIdle /\ DetIdle /\ RunIdle /\ ExtIdle
SpecPlan == InitPlan /\ [][PlanNext]_vars

InitHeader == HdrInit /\ ColsIdle /\ PlanIdle /\ WbIdle /\ MergeIdle /\ DetIdle /\ RunIdle /\ ExtIdle
SpecHeader == InitHeader /\ [][HdrNext]_vars

InitShift == ShiftInit /\ ColsIdle /\ PlanIdle /\ WbIdle /\ MergeIdle /\ DetIdle /\ RunIdle /\ ExtIdle
SpecShift == InitShift /\ [][ShiftNext]_vars

InitDetect == DetInit /\ ColsIdle /\ PlanIdle /\ HdrIdle /\ WbIdle /\ MergeIdle /\ RunIdle /\ ExtIdle
SpecDetect == InitDetect /\ [][DetNext]_vars

InitSheet ==
  /\ SheetInit /\ ColsIdle /\ WbIdle /\ MergeIdle /\ RunIdle /\ ExtIdle
  /\ hdr_df = <<>> /\ hdr_max_rows = 0 /\ hdr_result = -1
  /\ hdr_inserted = 0 /\ hdr_shifted_result = -1 /\ det_tags = <<>>
SpecSheet == InitSheet /\ [][SheetNext]_vars

InitRun == RunInit /\ ColsIdle /\ PlanIdle /\ HdrIdle /\ WbIdle /\ DetIdle /\ ExtIdle
SpecRun == InitRun /\ [][RunNext]_vars

InitWorkbook == WbInit /\ ColsIdle /\ PlanIdle /\ HdrIdle /\ MergeIdle /\ DetIdle /\ RunIdle /\ ExtIdle
SpecWorkbook == InitWorkbook /\ [][WbNext]_vars

InitMerge == MergeInit /\ ColsIdle /\ PlanIdle /\ HdrIdle /\ WbIdle /\ DetIdle /\ RunIdle /\ ExtIdle
SpecMerge == InitMerge /\ [][MergeNext]_vars

InitProc ==
  /\ ProcInit /\ ColsIdle /\ PlanIdle /\ HdrIdle /\ WbIdle /\ MergeIdle /\ DetIdle /\ RunIdle
  /\ MetaIdle /\ UiIdle
SpecProc == InitProc /\ [][ProcNext]_vars

InitMeta ==
  /\ MetaInit /\ ColsIdle /\ PlanIdle /\ HdrIdle /\ WbIdle /\ MergeIdle /\ DetIdle /\ RunIdle
  /\ ProcIdle /\ UiIdle
SpecMeta == InitMeta /\ [][MetaNext]_vars

InitInteractive ==
  /\ UiInit /\ ColsIdle /\ PlanIdle /\ HdrIdle /\ MergeIdle /\ DetIdle /\ RunIdle
  /\ MetaIdle /\ ProcIdle
SpecInteractive == InitInteractive /\ [][UiNext]_vars

Init == InitInteractive \/ InitMeta \/ InitProc \/ InitCols \/ InitPlan \/ InitHeader \/ InitShift \/ InitDetect \/ InitRun \/ InitSheet \/ InitWorkbook \/ InitMerge
Next == UiNext \/ MetaNext \/ ProcNext \/ ColsNext \/ PlanNext \/ HdrNext \/ ShiftNext \/ DetNext \/ RunNext \/ SheetNext \/ WbNext \/ MergeNext
Spec == Init /\ [][Next]_vars

(***************************************************************************)
(* C2: for every list of raw header labels, the keys produced by           *)
(* normalize_column_name followed by make_columns_unique are pairwise      *)
(* distinct.                                                               *)
(***************************************************************************)
C2_KeysPairwiseDistinct ==
  pc = "cols_unique" =>
    \A i, j \in 1..Len(unique_columns) : i # j => unique_columns[i] # unique_columns[j]

(***************************************************************************)
(* C1: melt conservation.  For a plan sheet, process_plan_sheet emits      *)
(* exactly one allocation row per (data row, period column) pair whose     *)
(* cell is non-null and non-zero, and the hours of the emitted rows sum to *)
(* the sum of those cells.  The dimension rows are the data rows left by   *)
(* the empty-row filter; the period columns are the columns whose header   *)
(* label is a week number.  Stated for the sheets on which the melt runs   *)
(* (the dimension-only fallback emits no period rows at all).              *)
(***************************************************************************)
PlanHeader == plan_df[plan_header_row + 1]
PlanUnique ==
  make_columns_unique([i \in 1..Len(PlanHeader) |-> Text(normalize_column_name(PlanHeader[i]))])
PlanDimensionRows ==
  {r \in (plan_header_row + 2)..Len(plan_df) : KeepRow(plan_df[r], PlanUnique)}
PlanPeriodColumns == {p \in 1..Len(PlanHeader) : WeekNumberOf(PlanHeader[p]) > 0}
QualifyingCells ==
  {rp \in PlanDimensionRows \X PlanPeriodColumns :
     notna(plan_df[rp[1]][rp[2]]) /\ plan_df[rp[1]][rp[2]] # Num(0)}

RECURSIVE SumCells(_)
SumCells(S) ==
  IF S = {} THEN 0
  ELSE LET rp == CHOOSE x \in S : TRUE IN plan_df[rp[1]][rp[2]].n + SumCells(S \ {rp})

RECURSIVE SumHours(_)
SumHours(rows) == IF rows = <<>> THEN 0 ELSE Head(rows).hours.n + SumHours(Tail(rows))

C1_MeltConservation ==
  (pc = "plan_done" /\ plan_result.melted) =>
    /\ Len(plan_result.allocations) = Cardinality(QualifyingCells)
    /\ SumHours(plan_result.allocations) = SumCells(QualifyingCells)

(***************************************************************************)
(* C6: for every grid and sheet type, find_header_row returns either -1 or *)
(* an index below min(max_rows, row count) of a row that has at least 3    *)
(* non-null cells.                                                         *)
(***************************************************************************)
C6_HeaderRowValidOrMinusOne ==
  pc = "hdr_done" =>
    \/ hdr_result = -1
    \/ /\ 0 <= hdr_result
       /\ hdr_result < Min(hdr_max_rows, Len(hdr_df))
       /\ NonNullCount(hdr_df[hdr_result + 1]) >= 3

\* a header found below the first row of a grid longer than max_rows
C6_Witness ==
  pc = "hdr_done" /\ hdr_result >= 1 /\ Len(hdr_df) > hdr_max_rows

(***************************************************************************)
(* C3: process_workbook appends exactly one processing-log entry for every *)
(* sheet of the workbook, whatever the sheet's outcome, and every entry's  *)
(* status is success, error or skipped.  While the loop runs and after the *)
(* run has returned, the log holds one entry per sheet gone through, in    *)
(* the order of the sheets.                                                *)
(***************************************************************************)
C3_OneLogEntryPerSheet ==
  pc \in {"wb_loop", "wb_returned", "wb_uploaded"} =>
    /\ Len(results.processing_log) = wb_i - 1
    /\ \A k \in 1..Len(results.processing_log) :
         /\ results.processing_log[k].sheet = wb_sheets[k]
         /\ results.processing_log[k].status \in {"success", "error", "skipped"}

(***************************************************************************)
(* C4: a failure on one sheet fails that sheet only.  Whatever happens on  *)
(* the sheet at hand, the loop of process_workbook moves on to the next    *)
(* sheet and the records accumulated from earlier sheets stay as they are. *)
(***************************************************************************)
IsPrefix(a, b) == Len(a) <= Len(b) /\ SubSeq(b, 1, Len(a)) = a

RecordsKept(before, after) ==
  /\ IsPrefix(before.allocations, after.allocations)
  /\ IsPrefix(before.rate_cards, after.rate_cards)
  /\ IsPrefix(before.actuals, after.actuals)
  /\ IsPrefix(before.costs, after.costs)
  /\ IsPrefix(before.projects, after.projects)
  /\ IsPrefix(before.processing_log, after.processing_log)

C4_SheetFailureIsolated ==
  [][InLoop => (pc' = "wb_loop" /\ wb_i' = wb_i + 1 /\ RecordsKept(results, results'))]_vars

(***************************************************************************)
(* C5: whenever the header locator returns -1 for a sheet, no processor    *)
(* runs on it, it contributes no records and no ProjectRecord, a log entry *)
(* with status error and the given message is recorded for it, and the     *)
(* loop goes on with the next sheet, the records of the other sheets       *)
(* untouched.  process_workbook records the message "Could not find header *)
(* row"; the statement with "Could not detect header row" is               *)
(* C5_DetectMessage.                                                       *)
(***************************************************************************)
HeaderMissingStep(message) ==
  (InLoop /\ Handled /\ Readable /\ Len(CurrentSheet.df) > 0
     /\ HeaderRow = -1)
  => /\ results'.allocations = results.allocations
     /\ results'.rate_cards = results.rate_cards
     /\ results'.actuals = results.actuals
     /\ results'.costs = results.costs
     /\ results'.projects = results.projects
     /\ Len(results'.processing_log) = Len(results.processing_log) + 1
     /\ IsPrefix(results.processing_log, results'.processing_log)
     /\ LET entry == results'.processing_log[Len(results'.processing_log)]
        IN /\ entry.sheet = CurrentSheet.name
           /\ entry.status = "error"
           /\ entry.message = message
     /\ wb_i' = wb_i + 1
     /\ pc' = "wb_loop"

HasProject(row) ==
  \E p \in 1..Len(results.projects) :
    /\ results.projects[p].project_id = row.project_id
    /\ results.projects[p].source_sheet = row.source_sheet

C7_AllocationsReferenceProject ==
  /\ \A f \in 1..Len(results.allocations) :
       \A r \in 1..Len(results.allocations[f].rows) :
         HasProject(results.allocations[f].rows[r])
  /\ \A r \in 1..Len(results.allocations_combined) :
       HasProject(results.allocations_combined[r])

\* a returned run whose combined allocations come from two sheets
C7_Witness ==
  /\ pc = "wb_returned"
  /\ \E a, b \in 1..Len(results.allocations_combined) :
       results.allocations_combined[a].project_id # results.allocations_combined[b].project_id

(***************************************************************************)
(* C8: project_id is a function of the identifying strings, so ingesting   *)
(* the same file again creates no second identity.  Among the project      *)
(* rows of the warehouse and of the current run, rows of the same source   *)
(* file and source sheet carry the same project_id (C8_StablePerSheet);    *)
(* the statement for the source file alone, client and title being fixed,  *)
(* is C8_StablePerFile.                                                    *)
(***************************************************************************)
ProjectRows == SeqSet(bq_projects) \cup SeqSet(results.projects)

HasMatch(key) == \E r \in 1..Len(mg_rate_card) : mg_rate_card[r].key = key

Occurrences(rows, key, hours) ==
  Cardinality({i \in 1..Len(rows) : rows[i].key = key /\ rows[i].hours = hours})

NullOrZero(c) == isna(c) \/ c = Num(0)

RatesNullOrZero(o) ==
  IF mg_variant = "ingest"
  THEN /\ NullOrZero(o.cost_rate) /\ NullOrZero(o.bill_rate)
       /\ NullOrZero(o.forecasted_cost) /\ NullOrZero(o.forecasted_revenue)
  ELSE NullOrZero(o.rate) /\ NullOrZero(o.total_fees)

C9_LeftJoinRetainsRows ==
  pc = "merge_done" =>
    /\ \A i \in 1..Len(mg_plan) :
         Occurrences(mg_merged, mg_plan[i].key, mg_plan[i].hours)
           >= Occurrences(mg_plan, mg_plan[i].key, mg_plan[i].hours)
    /\ \A o \in 1..Len(mg_merged) :
         ~HasMatch(mg_merged[o].key) => RatesNullOrZero(mg_merged[o])

\* a merge of a plan with one matched and one unmatched row
C9_Witness ==
  /\ pc = "merge_done"
  /\ \E i, j \in 1..Len(mg_plan) : HasMatch(mg_plan[i].key) /\ ~HasMatch(mg_plan[j].key)
  /\ Len(mg_merged) = Len(mg_plan)

(***************************************************************************)
(* C10: the merge step reports an unmatched count equal to the number of   *)
(* allocation rows that have no matching rate-card key.                    *)
(***************************************************************************)
C10_UnmatchedCountReported ==
  pc = "merge_done" =>
    mg_unmatched = Cardinality({i \in 1..Len(mg_plan) : ~HasMatch(mg_plan[i].key)})

(***************************************************************************)
(* C11: for every allocation row matched to a rate-card row, the merge     *)
(* output has forecasted_cost = hours x cost_rate and forecasted_revenue = *)
(* hours x bill_rate of that rate-card row (total_fees = hours x rate in   *)
(* the version with a single rate).  Every pair of a plan row and a        *)
(* rate-card row with the same key and numeric rates has an output row     *)
(* carrying the products, and every output row's amounts are the products  *)
(* of its hours and its rates.                                             *)
(***************************************************************************)
Amounts(o) ==
  IF mg_variant = "ingest" THEN <<o.forecasted_cost, o.forecasted_revenue>>
  ELSE <<o.total_fees>>

\* the product of two cells, null when a factor is null
Times(a, b) == IF isnum(a) /\ isnum(b) THEN Num(a.n * b.n) ELSE NaN

Products(hours, r) ==
  IF mg_variant = "ingest" THEN <<Times(hours, r.cost_rate), Times(hours, r.bill_rate)>>
  ELSE <<Times(hours, r.rate)>>

NumericRates(r) ==
  IF mg_variant = "ingest" THEN notna(r.cost_rate) /\ notna(r.bill_rate) ELSE notna(r.rate)

C11_AmountsAreProducts ==
  pc = "merge_done" =>
    /\ \A i \in 1..Len(mg_plan) : \A r \in 1..Len(mg_rate_card) :
         (mg_rate_card[r].key = mg_plan[i].key /\ NumericRates(mg_rate_card[r]))
           => \E o \in 1..Len(mg_merged) :
                /\ mg_merged[o].key = mg_plan[i].key
                /\ mg_merged[o].hours = mg_plan[i].hours
                /\ Amounts(mg_merged[o]) = Products(mg_plan[i].hours, mg_rate_card[r])
    /\ \A o \in 1..Len(mg_merged) :
         Amounts(mg_merged[o]) = Products(mg_merged[o].hours, mg_merged[o])

\* hours 10 with cost_rate 50 and bill_rate 120 gives 500 and 1200
C11_Witness ==
  /\ pc = "merge_done"
  /\ mg_variant = "ingest"
  /\ \E o \in 1..Len(mg_merged) :
       /\ mg_merged[o].hours = Num(10)
       /\ mg_merged[o].cost_rate = Num(50) /\ mg_merged[o].bill_rate = Num(120)
       /\ mg_merged[o].forecasted_cost = Num(500)
       /\ mg_merged[o].forecasted_revenue = Num(1200)

(***************************************************************************)
(* C12: header-location stability.  Inserting blank rows at the top of a   *)
(* sheet does not change the content of the row find_header_row detects,   *)
(* only the returned index shifts by the number of inserted rows.          *)
(* C12_StableAnyNumber states it for any number of inserted rows;          *)
(* C12_StableWithinScan states it for the insertions that leave the        *)
(* detected row within the first max_rows rows, and adds that a sheet      *)
(* without detected header stays without one.                              *)
(***************************************************************************)
ShiftedGrid == WithBlankRows(hdr_df, hdr_inserted)

SameRowShifted ==
  /\ hdr_shifted_result = hdr_result + hdr_inserted
  /\ ShiftedGrid[hdr_shifted_result + 1] = hdr_df[hdr_result + 1]

Repeats(i) == Cardinality({j \in 1..(i - 1) : normalized_columns[j] = normalized_columns[i]})

C13_OrderAndSuffixes ==
  pc = "cols_unique" =>
    /\ Len(normalized_columns) = Len(raw_columns)
    /\ Len(unique_columns) = Len(raw_columns)
    /\ \A i \in 1..Len(unique_columns) :
         unique_columns[i] =
           IF Repeats(i) = 0 THEN normalized_columns[i]
           ELSE normalized_columns[i] \o "_" \o ToString(Repeats(i))

C13_Witness ==
  /\ pc = "cols_unique"
  /\ raw_columns = <<Text("Role"), Text("role"), Text("Role")>>
  /\ unique_columns = <<"role", "role_1", "role_2">>

(***************************************************************************)
(* C20: in the normalize-then-dedup pipeline a null header label becomes   *)
(* the key "unnamed" before suffixing: the first null label of a header    *)
(* gets the key unnamed, the next ones unnamed_1, unnamed_2, ...           *)
(***************************************************************************)
EarlierNulls(i) == Cardinality({j \in 1..(i - 1) : isna(raw_columns[j])})

C20_NullBecomesUnnamed ==
  pc = "cols_unique" =>
    \A i \in 1..Len(raw_columns) :
      isna(raw_columns[i]) =>
        unique_columns[i] =
          IF EarlierNulls(i) = 0 THEN "unnamed"
          ELSE "unnamed_" \o ToString(EarlierNulls(i))

(***************************************************************************)
(* C15: detect_sheet_type is a total, deterministic function of the sheet  *)
(* name: every call returns one tag of the fixed set of eleven tags, and   *)
(* the calls on the same name return the same tag.                         *)
(***************************************************************************)
TypeTags ==
  { "plan", "rate_card", "actuals", "costs", "investment_log", "external_estimate",
    "media", "info", "mapping", "skip", "unknown" }

NameLower == strip(lower(det_name))

ExactSkipRule == StartsWith(NameLower, "_") \/ NameLower \in {"helper", "mapping", "info"}

ContainsSkipRule ==
  \/ StartsWith(NameLower, "_")
  \/ Contains(NameLower, "helper")
  \/ Contains(NameLower, "mapping")
  \/ NameLower = "info"

C17_SkipIffExact ==
  \A c \in 1..Len(det_tags) : det_tags[c] = "skip" <=> ExactSkipRule

C17_SkipIffContains ==
  \A c \in 1..Len(det_tags) : det_tags[c] = "skip" <=> ContainsSkipRule

\* a name that matches a skip rule and a pattern of the type plan
C17_Witness ==
  /\ det_name = "Staffing Helper"
  /\ AnyPattern(SHEET_TYPE_PATTERNS[1][2], NameLower)
  /\ det_tags = <<"skip">>

(***************************************************************************)
(* C18: for a name that matches no skip rule and matches the pattern sets  *)
(* of several types, detect_sheet_type returns the first matching type in  *)
(* the order plan, rate_card, actuals, costs, investment_log,              *)
(* external_estimate, media, info, mapping.                                *)
(***************************************************************************)
TypePriority ==
  << "plan", "rate_card", "actuals", "costs", "investment_log", "external_estimate",
     "media", "info", "mapping" >>

PatternsOfType(tag) ==
  SHEET_TYPE_PATTERNS[CHOOSE i \in 1..Len(SHEET_TYPE_PATTERNS) : SHEET_TYPE_PATTERNS[i][1] = tag][2]

MatchedRanks == {k \in 1..Len(TypePriority) : AnyPattern(PatternsOfType(TypePriority[k]), NameLower)}

FirstMatchedType == TypePriority[CHOOSE k \in MatchedRanks : \A m \in MatchedRanks : k <= m]

C18_FirstMatchInPriorityOrder ==
  (~AnyPattern(SKIP_SHEET_PATTERNS, NameLower) /\ Cardinality(MatchedRanks) >= 2)
    => \A c \in 1..Len(det_tags) : det_tags[c] = FirstMatchedType

\* a name matching the patterns of rate_card and of actuals
C18_Witness ==
  /\ det_name = "Rate Card Actuals"
  /\ Cardinality(MatchedRanks) = 2
  /\ det_tags = <<"rate_card">>

(***************************************************************************)
(* C19: find_header_row returns the lowest index among the candidate rows  *)
(* (the scanned rows with at least 3 non-null cells) that attain the       *)
(* maximum score, and -1 when no candidate row scores above 0.             *)
(***************************************************************************)
Candidates ==
  {i \in 0..(Min(hdr_max_rows, Len(hdr_df)) - 1) : NonNullCount(hdr_df[i + 1]) >= 3}

\* the scores of the rows of the pool, per sheet type
ScoreTable == [row \in GridRows, type \in HeaderSheetTypes |-> RowScore(row, KeywordsFor(type))]

ScoreOfRow(i) == ScoreTable[hdr_df[i + 1], hdr_type]

TopCandidates == {i \in Candidates : \A j \in Candidates : ScoreOfRow(i) >= ScoreOfRow(j)}

C19_FirstOfTheBest ==
  pc = "hdr_done" =>
    IF \E i \in Candidates : ScoreOfRow(i) > 0
    THEN hdr_result \in TopCandidates /\ \A i \in TopCandidates : hdr_result <= i
    ELSE hdr_result = -1

\* two candidate rows tie for the maximum score, the first is returned
C19_Witness ==
  /\ pc = "hdr_done"
  /\ Cardinality(TopCandidates) >= 2
  /\ hdr_result >= 0
  /\ \E i \in TopCandidates : hdr_result < i

(***************************************************************************)
(* C14: end to end, a sheet named "2025 Plan" whose header row Category,   *)
(* Market, Department, Role, 01, 02 follows the rows of project            *)
(* information (at index 5 when there are five of them) and is followed by *)
(* the data row Staffing, AMER, Eng, Dev, 10, 0 is classified plan, its    *)
(* header is located at that index, and it yields exactly one allocation   *)
(* row, with period identifier 1 and hours 10.                             *)
(***************************************************************************)
Scenario ==
  /\ det_name = "2025 Plan"
  /\ Len(plan_df) >= 2
  /\ plan_df[Len(plan_df) - 1] = ScenarioHeader
  /\ plan_df[Len(plan_df)] = ScenarioData

C14_EndToEnd ==
  Scenario =>
    /\ pc \notin {"sheet_skipped", "sheet_empty", "sheet_no_header"}
    /\ pc # "sheet_start" => hdr_type = "plan"
    /\ pc \in {"sheet_located", "sheet_done"} => plan_header_row = Len(plan_df) - 2
    /\ pc = "sheet_done" =>
         /\ Len(plan_result.allocations) = 1
         /\ plan_result.allocations[1].week_number = Num(1)
         /\ plan_result.allocations[1].hours = Num(10)

\* the scenario with the header row at index 5
C14_Witness ==
  /\ Scenario
  /\ pc = "sheet_done"
  /\ Len(plan_df) = 7
  /\ plan_header_row = 5
  /\ Len(plan_result.allocations) = 1
  /\ plan_result.allocations[1].hours = Num(10)

(***************************************************************************)
(* C16: in every run that performs a rate merge, the rate-card sheet has   *)
(* been processed before the merge step starts: no step of a run starts    *)
(* the merge while the rate card is still unprocessed.                     *)
(***************************************************************************)
MergeStarts == "merge" \notin SeqSet(run_done) /\ "merge" \in SeqSet(run_done')

RateCardProcessed == "rate_card" \in SeqSet(run_done)

C16_RateCardBeforeMerge == [][MergeStarts => RateCardProcessed]_vars

\* a run of src/ingest.py that has merged a plan row with its rate row
C16_Witness ==
  /\ mg_variant = "ingest"
  /\ "merge" \in SeqSet(run_done)
  /\ \E o \in 1..Len(mg_merged) : mg_merged[o].bill_rate = Num(120)

(***************************************************************************)
(* C21: every allocation row emitted by the melt carries as period         *)
(* identifier the integer period number of the header column it came from  *)
(* ("01" gives 1, numeric 2 gives 2), also for period columns whose key    *)
(* was suffixed by the dedup; the identifier is never a string, 0 or null. *)
(* Stated by counting: the emitted rows with period number w and hours h   *)
(* are at most as many as the non-null, non-zero cells with value h of the *)
(* kept data rows under the header columns whose period number is w.       *)
(***************************************************************************)
CellsOfPeriod(w, h) ==
  {rp \in QualifyingCells : WeekNumberOf(PlanHeader[rp[2]]) = w /\ plan_df[rp[1]][rp[2]] = h}

RowsOfPeriod(w, h) ==
  {i \in 1..Len(plan_result.allocations) :
     plan_result.allocations[i].week_number = w /\ plan_result.allocations[i].hours = h}

C21_PeriodNumberCarried ==
  (pc = "plan_done" /\ plan_result.melted) =>
    \A i \in 1..Len(plan_result.allocations) :
      LET a == plan_result.allocations[i]
      IN /\ isnum(a.week_number)
         /\ a.week_number.n \in 1..90
         /\ Cardinality(RowsOfPeriod(a.week_number, a.hours))
              <= Cardinality(CellsOfPeriod(a.week_number.n, a.hours))

(***************************************************************************)
(* C22: if the melt raises inside process_plan_sheet (the sheet has a      *)
(* column whose key is hours, the name of the melt's value column), the    *)
(* exception does not propagate: the processor returns the dimension-only  *)
(* rows, one per kept data row, tagged with source_sheet and project_id,   *)
(* and the sheet is recorded in the processing log as a success.           *)
(***************************************************************************)
MeltOverlap ==
  /\ "hours" \in SeqSet(PlanUnique)
  /\ \E p \in 1..Len(PlanHeader) : WeekNumberOf(PlanHeader[p]) > 0

C22_MeltFailureFallsBack ==
  (pc = "sheet_done" /\ MeltOverlap) =>
    /\ Len(plan_result.allocations) = Cardinality(PlanDimensionRows)
    /\ \A i \in 1..Len(plan_result.allocations) :
         /\ plan_result.allocations[i].week_number = NaN
         /\ plan_result.allocations[i].hours = NaN
         /\ plan_result.allocations[i].source_sheet = det_name
         /\ plan_result.allocations[i].project_id =
              generate_project_id(client_name, project_title, file_name, det_name)
    /\ Len(results.processing_log) = 1
    /\ results.processing_log[1].sheet = det_name
    /\ results.processing_log[1].status = "success"
    /\ results.processing_log[1].row_count = Len(plan_result.allocations)

\* the sheet with the Hours column has been processed and one dimension-only row returned
C22_Witness ==
  /\ pc = "sheet_done"
  /\ MeltOverlap
  /\ Len(plan_result.allocations) = 1
  /\ plan_result.allocations[1].ids["role"] = Text("Dev")
  /\ results.processing_log[1].status = "success"

(***************************************************************************)
(* C25: the rate merge matches keys after case normalization: an           *)
(* allocation row and a rate-card row whose (market, department, role)     *)
(* values differ only in letter case are joined, and the allocation row    *)
(* receives the rates of that rate-card row.                               *)
(***************************************************************************)
CaseFold(key) == [j \in 1..Len(key) |-> IF isstr(key[j]) THEN Text(lower(key[j].s)) ELSE key[j]]

ReceivesRates(o, r) ==
  IF mg_variant = "ingest"
  THEN o.cost_rate = fillna(r.cost_rate, Num(0)) /\ o.bill_rate = fillna(r.bill_rate, Num(0))
  ELSE o.rate = r.rate

C25_CaseNormalizedJoin ==
  pc = "merge_done" =>
    \A i \in 1..Len(mg_plan) : \A j \in 1..Len(mg_rate_card) :
      CaseFold(mg_plan[i].key) = CaseFold(mg_rate_card[j].key) =>
        \E o \in 1..Len(mg_merged) :
          /\ mg_merged[o].key = mg_plan[i].key
          /\ mg_merged[o].hours = mg_plan[i].hours
          /\ ReceivesRates(mg_merged[o], mg_rate_card[j])

(***************************************************************************)
(* C28: the output of merge_and_calculate has exactly as many rows as the  *)
(* input allocation table and the same total hours: the join never         *)
(* duplicates an allocation row.                                           *)
(***************************************************************************)
RECURSIVE TotalHours(_)
TotalHours(rows) ==
  IF rows = <<>> THEN 0
  ELSE (IF isnum(Head(rows).hours) THEN Head(rows).hours.n ELSE 0) + TotalHours(Tail(rows))

C28_JoinPreservesRows ==
  pc = "merge_done" =>
    /\ Len(mg_merged) = Len(mg_plan)
    /\ TotalHours(mg_merged) = TotalHours(mg_plan)

(***************************************************************************)
(* C29: after process_workbook returns, for each record set (allocations,  *)
(* rate_cards, actuals, costs) the number of rows of the combined table    *)
(* equals the sum of row_count over the success log entries of the         *)
(* corresponding sheet type, and a sheet with an error log entry has       *)
(* contributed no rows to any record set.                                  *)
(***************************************************************************)
RECURSIVE LoggedRows(_, _)
LoggedRows(log, type) ==
  IF log = <<>> THEN 0
  ELSE (IF Head(log).status = "success" /\ Head(log).type = type THEN Head(log).row_count ELSE 0)
         + LoggedRows(Tail(log), type)

WorkbookReturned == pc \in {"wb_returned", "wb_uploaded"}

CombinedRows ==
  results.allocations_combined \o results.rate_cards_combined
    \o results.actuals_combined \o results.costs_combined

C29_CombinedMatchesLog ==
  WorkbookReturned =>
    /\ Len(results.allocations_combined) = LoggedRows(results.processing_log, "plan")
    /\ Len(results.rate_cards_combined) = LoggedRows(results.processing_log, "rate_card")
    /\ Len(results.actuals_combined) = LoggedRows(results.processing_log, "actuals")
    /\ Len(results.costs_combined) = LoggedRows(results.processing_log, "costs")
    /\ \A e \in 1..Len(results.processing_log) :
         results.processing_log[e].status = "error" =>
           \A r \in 1..Len(CombinedRows) :
             CombinedRows[r].source_sheet # results.processing_log[e].sheet

\* a workbook with two plan sheets that gave rows and a sheet logged as an error
C29_Witness ==
  /\ WorkbookReturned
  /\ Len(results.allocations) = 2
  /\ Len(results.allocations_combined) >= 2
  /\ \E e \in 1..Len(results.processing_log) : results.processing_log[e].status = "error"

(***************************************************************************)
(* C26: the plan processor treats an original header column as a period    *)
(* column exactly when its label is a 1-2 digit integer string in [1, 90], *)
(* or such a number followed by -Hours, or a native number in [1, 90];     *)
(* every other column is not a period column.                              *)
(***************************************************************************)
PeriodDigits(s) == Len(s) \in 1..2 /\ IsDigits(s) /\ ParseInt(s) \in 1..90

ClaimedPeriodLabel(label) ==
  \/ isnum(label) /\ label.n \in 1..90
  \/ isstr(label) /\ PeriodDigits(label.s)
  \/ /\ isstr(label)
     /\ Len(label.s) > 6
     /\ SubSeq(label.s, Len(label.s) - 5, Len(label.s)) \in {"-Hours", "-hours"}
     /\ PeriodDigits(SubSeq(label.s, 1, Len(label.s) - 6))

TreatedAsPeriod(p) ==
  \E k \in 1..Len(plan_result.week_col_in_data) :
    plan_result.week_col_in_data[k][1] = PlanUnique[p]

C26_PeriodColumnsExactly ==
  pc = "plan_done" =>
    \A p \in 1..Len(PlanHeader) : TreatedAsPeriod(p) <=> ClaimedPeriodLabel(PlanHeader[p])

(***************************************************************************)
(* C27: the plan and actuals processors drop a data row exactly when its   *)
(* market, department and role are all empty, the costs processor exactly  *)
(* when its item is empty; every other data row is kept, in order.         *)
(***************************************************************************)
ProcHeader == proc_df[1]
ProcKeys == [i \in 1..Len(ProcHeader) |-> normalize_column_name(ProcHeader[i])]

\* the cells of the row under the columns with the given keys are all null
AllEmpty(row, keys) == \A p \in 1..Len(ProcKeys) : ProcKeys[p] \in keys => isna(row[p])

ClaimedDropped(row) ==
  IF proc_type = "costs" THEN AllEmpty(row, {"item"})
  ELSE AllEmpty(row, {"market", "department", "role"})

ClaimedKept == SelectSeq(Tail(proc_df), LAMBDA row : ~ClaimedDropped(row))

\* the cells of the input row that the i-th output row carries
OutputCells(i) ==
  IF proc_type = "plan"
  THEN [p \in {q \in 1..Len(ProcKeys) : ProcKeys[q] \in DOMAIN proc_result.allocations[i].ids} |->
          proc_result.allocations[i].ids[ProcKeys[p]]]
  ELSE proc_result.frame.rows[i].cells

C27_EmptyRowsDropped ==
  pc = "proc_done" =>
    /\ proc_result.row_count = Len(ClaimedKept)
    /\ \A i \in 1..Len(ClaimedKept) :
         \A p \in DOMAIN OutputCells(i) : OutputCells(i)[p] = ClaimedKept[i][p]

(***************************************************************************)
(* C23: extract_sheet_metadata accepts a value for the market key only if  *)
(* it is a whitelisted market code or a short (at most 6 characters)       *)
(* all-uppercase alphabetic token that is not itself a known column label; *)
(* a token such as TOTAL is never captured as the market.                  *)
(***************************************************************************)
ClaimedMarketValue(v) ==
  /\ isstr(v)
  /\ \/ upper(strip(v.s)) \in VALID_MARKET_CODES
     \/ /\ Len(v.s) <= 6
        /\ \A i \in 1..Len(v.s) : IsUpperChar(CharAt(v.s, i))
        /\ lower(v.s) \notin INVALID_MARKET_VALUES
  /\ v.s # "TOTAL"

C23_MarketValueGuarded ==
  (pc = "meta_done" /\ "market" \in DOMAIN sheet_metadata.configuration) =>
    ClaimedMarketValue(sheet_metadata.configuration["market"])

(***************************************************************************)
(* C24: every label/value pair that extract_sheet_metadata discovers in    *)
(* the rows above the header (a cell that matches a known label, with a    *)
(* non-null cell next to it) is appended to the raw entries, whether or    *)
(* not it was promoted.                                                    *)
(***************************************************************************)
IsKnownLabel(cell) ==
  /\ isstr(cell)
  /\ \E k \in 1..Len(known_labels) :
       \/ strip(lower(cell.s)) = known_labels[k][1]
       \/ Contains(strip(lower(cell.s)), known_labels[k][1]) /\ Len(strip(lower(cell.s))) < 50

DiscoveredPairs ==
  {<<r, c>> \in (1..meta_header_row) \X (1..4) :
     IsKnownLabel(meta_df[r][c]) /\ notna(meta_df[r][c + 1])}

C24_DiscoveredPairsKept ==
  pc = "meta_done" =>
    \A rc \in DiscoveredPairs :
      \E e \in 1..Len(sheet_metadata.raw_metadata) :
        /\ sheet_metadata.raw_metadata[e].row = rc[1]
        /\ sheet_metadata.raw_metadata[e].label = meta_df[rc[1]][rc[2]]
        /\ sheet_metadata.raw_metadata[e].value = meta_df[rc[1]][rc[2] + 1]

(***************************************************************************)
(* C30: in interactive mode sheets are processed only after the selection  *)
(* step has left at least one sheet selected and the user has then         *)
(* confirmed the preview, in that order; if no sheet is selected or the    *)
(* preview is declined, run_interactive_mode returns None and no sheet is  *)
(* processed; and only sheets whose selected flag is true are processed.   *)
(***************************************************************************)
ConfirmingSteps == {"preview=y", "preview=yes", "preview="}

ConfirmedAfterSelection ==
  \E i, j \in 1..Len(ui_steps) :
    i < j /\ ui_steps[i] = "selection" /\ ui_steps[j] \in ConfirmingSteps

IsSelected(name) ==
  \E i \in 1..Len(sheet_info) : sheet_info[i].name = name /\ sheet_info[i].selected

NothingSelected == \A i \in 1..Len(sheet_info) : ~sheet_info[i].selected

ReturnedNone == pc = "ui_none"

C30_ProcessingNeedsConfirmedSelection ==
  /\ [](ui_processed # <<>> =>
          /\ ConfirmedAfterSelection
          /\ ~NothingSelected
          /\ \A k \in 1..Len(ui_processed) : IsSelected(ui_processed[k]))
  /\ [](ReturnedNone => ui_processed = <<>> /\ results = EmptyResults)
  /\ [][(pc = "ui_selected" /\ NothingSelected) => ReturnedNone']_vars
  /\ [][(pc = "ui_preview" /\ ui_steps'[Len(ui_steps')] \notin ConfirmingSteps)
          => ReturnedNone']_vars
  /\ [][ReturnedNone => ReturnedNone']_vars
  /\ [][ui_processed' # ui_processed =>
          /\ ConfirmedAfterSelection
          /\ ui_processed' = Append(ui_processed, ui_processed'[Len(ui_processed')])
          /\ IsSelected(ui_processed'[Len(ui_processed')])]_vars

\* the user deselected one of two sheets, confirmed, and the other sheet was processed
C30_Witness ==
  /\ pc = "ui_returned"
  /\ ui_responses >= 1
  /\ Len(sheet_info) = 2
  /\ Len(ui_processed) = 1
  /\ \E i \in 1..2 : ~sheet_info[i].selected /\ sheet_info[i].detected_type \notin UnselectedTypes
  /\ Len(results.processing_log) = 1

====
